---- MODULE Spec2Model ----
(***************************************************************************)
(* FinWell: a collection of chat agents.  This module models              *)
(*   - the advisor's keyword router (src/advisor/advisor_agent.py),        *)
(*   - the token agent's symbol extraction, sentiment aggregation and      *)
(*     chat handler (src/crypto/token-sentiment-tracker-main (1)/...),     *)
(*   - the insurance agent's query extraction and chat handler             *)
(*     (src/health/insurance_info.py).                                     *)
(* Text is a sequence of one-character strings, so that lower-casing,      *)
(* substring containment and the regular expressions of the code are       *)
(* computed character by character.                                        *)
(***************************************************************************)
EXTENDS Integers, Sequences, FiniteSets, TLC

VARIABLES
    query,          \* the text of the message being handled
    sender,         \* the address the message came from
    advisorPc,      \* route_message: "pending" | "handled"
    advisorSent,    \* route_message: the ctx.send calls, in order
    token,          \* the value returned by extract_token_from_query
    extracted,      \* TRUE once extract_token_from_query has returned
    samples,        \* analyze_sentiment: the relevant items met so far, in order
    texts,          \* analyze_sentiment: its list `texts`
    sources,        \* analyze_sentiment: its list `sources`
    sentimentPc,    \* "idle" | "collect" | "done" | "insurance" | "insurance_done"
    sentiment_result,   \* the dictionary the sentiment analysis returned
    chatAgent,      \* the agent whose handle_chat_message runs: "token" | "insurance"
    chatSender,     \* the sender of the chat message
    content_list,       \* msg.content: the texts of its TextContent items
    llmKey,         \* whether ASI_LLM_KEY is set
    chatPc,         \* the handler's position
    token_symbol,   \* token agent: extract_token_from_query(user_message)
    query_info,     \* insurance agent: extract_insurance_info_from_query(user_message)
    calls,          \* how often each fetch was made
    price_data,     \* get_crypto_price's / get_insurance_market_data's result
    sentiment_data, \* the sentiment result the handler works with
    retry_count,    \* get_token_outlook: failed LLM attempts
    analysis,       \* the analysis text chosen: None, or Some(text)
    waits,          \* the asyncio.sleep calls of the retry loop, in seconds
    llm_outcomes,   \* the outcomes of the requests to the LLM endpoint, in order
    response,       \* the text to send
    chatSent,       \* the ctx.send calls of the handler, in order
    cliPc,          \* health CLI startup loop: "input" | "waiting" | "sleeping" | "ended"
    inputs,         \* health CLI: how many inputs the loop has read
    current,        \* health CLI: the number of the input whose response is awaited
    network,        \* health agents: the messages sent and not yet handled
    response_queue, \* health CLI: response_queue
    printed,        \* health CLI: the responses printed, each with the query it was printed for
    insurance_handled,  \* health CLI: insurance_handled
    analysed,       \* insurance agent: the responses receive_analysis handled and what it sent
    amount,         \* the number given to format_currency and format_percent
    formatted,      \* None, or Some of what the two functions returned
    newsPc,         \* analyze_sentiment's collection: "idle" | "news" | "market" | "analyze"
    source_index,   \* the place in NEWS_SOURCES of the next source_url
    market_index,   \* the place in MARKET_DATA_SOURCES of the next source_generator
    texts_count,    \* len(texts)
    successful_sources, \* successful_sources
    requested,      \* the sources requests.get was called for, in order
    news_outcomes,  \* what each request of a news source led to, in order
    storage,        \* Solana agent: ctx.storage, from str(ctx.session) to the stored sender
    last_chat_sender,   \* per session, the sender of the ChatMessage handled last
    participants,   \* per session, the senders of its ChatMessages so far
    solHandler,     \* Solana agent: the handler that ran last
    solSession,     \* ctx.session of that run
    solSender,      \* its sender
    solMsg,         \* the ChatMessage it was given
    solOutput,      \* the StructuredOutputResponse's output it was given
    solRpc,         \* what the Solana RPC endpoint answered to getBalance in it
    solStored,      \* the session_sender it read from the storage
    solCalls,       \* the service functions it called, in order
    solSent,        \* its ctx.send calls, in order
    solReturned,    \* whether it returned (FALSE: it ended in an exception)
    solSteps        \* how many handlers have run

classifyVars == <<query, sender, advisorPc, advisorSent, token, extracted>>

sentimentVars == <<samples, texts, sources, sentimentPc, sentiment_result>>

chatVars ==
    <<chatAgent, chatSender, content_list, llmKey, chatPc, token_symbol, query_info,
      calls, price_data, sentiment_data, retry_count, analysis, waits,
      llm_outcomes, response, chatSent>>

healthVars ==
    <<cliPc, inputs, current, network, response_queue, printed, insurance_handled,
      analysed>>

formatVars == <<amount, formatted>>

newsVars ==
    <<newsPc, source_index, market_index, texts_count, successful_sources,
      requested, news_outcomes>>

solanaVars ==
    <<storage, last_chat_sender, participants, solHandler, solSession, solSender,
      solMsg, solOutput, solRpc, solStored, solCalls, solSent, solReturned,
      solSteps>>

vars ==
    <<classifyVars, sentimentVars, chatVars, healthVars, formatVars, newsVars,
      solanaVars>>


(***************************************************************************)
(* Text helpers.                                                           *)
(***************************************************************************)
UpperChars == <<"A", "B", "C", "D", "E", "F", "G", "H", "I", "J", "K", "L", "M",
                "N", "O", "P", "Q", "R", "S", "T", "U", "V", "W", "X", "Y", "Z">>

LowerChars == <<"a", "b", "c", "d", "e", "f", "g", "h", "i", "j", "k", "l", "m",
                "n", "o", "p", "q", "r", "s", "t", "u", "v", "w", "x", "y", "z">>

DigitChars == {"0", "1", "2", "3", "4", "5", "6", "7", "8", "9"}

WhitespaceChars == {" ", "\t", "\n"}

Range(s) == {s[i] : i \in DOMAIN s}

IsLetter(c) == c \in Range(UpperChars) \cup Range(LowerChars)

\* str.lower() on one character.
LowerChar(c) ==
    IF c \in Range(UpperChars)
    THEN LowerChars[CHOOSE i \in DOMAIN UpperChars : UpperChars[i] = c]
    ELSE c

\* str.lower()
Lower(s) ==
    LET lowered == [i \in DOMAIN s |-> LowerChar(s[i])]
    IN  SubSeq(lowered, 1, Len(s))

\* Python's `sub in s` for strings.
Contains(s, sub) ==
    \E i \in 0..(Len(s) - Len(sub)) : SubSeq(s, i + 1, i + Len(sub)) = sub

\* `any(kw in s for kw in kws)`, which is also `a in s or b in s or c in s`.
ContainsAny(s, kws) == \E k \in DOMAIN kws : Contains(s, kws[k])

\* The regular expression class \w.
IsWordChar(c) == IsLetter(c) \/ c \in DigitChars \/ c = "_"

\* \b at the gap after the first p characters of s (0 <= p <= Len(s)).
WordBoundary(s, p) ==
    LET before == p >= 1 /\ IsWordChar(s[p])
        after  == p < Len(s) /\ IsWordChar(s[p + 1])
    IN  before # after

\* re.search(r'\b' + re.escape(word) + r'\b', s)
SearchWord(s, word) ==
    \E i \in 0..(Len(s) - Len(word)) :
        /\ SubSeq(s, i + 1, i + Len(word)) = word
        /\ WordBoundary(s, i)
        /\ WordBoundary(s, i + Len(word))

TOKEN_ID_MAP ==
    << [symbol |-> <<"b", "t", "c">>, name |-> <<"b", "i", "t", "c", "o", "i", "n">>],
       [symbol |-> <<"e", "t", "h">>, name |-> <<"e", "t", "h", "e", "r", "e", "u", "m">>],
       [symbol |-> <<"s", "o", "l">>, name |-> <<"s", "o", "l", "a", "n", "a">>],
       [symbol |-> <<"l", "i", "n", "k">>, name |-> <<"c", "h", "a", "i", "n", "l", "i", "n", "k">>],
       [symbol |-> <<"d", "o", "t">>, name |-> <<"p", "o", "l", "k", "a", "d", "o", "t">>],
       [symbol |-> <<"a", "d", "a">>, name |-> <<"c", "a", "r", "d", "a", "n", "o">>],
       [symbol |-> <<"a", "v", "a", "x">>, name |-> <<"a", "v", "a", "l", "a", "n", "c", "h", "e", "-", "2">>],
       [symbol |-> <<"m", "a", "t", "i", "c">>, name |-> <<"m", "a", "t", "i", "c", "-", "n", "e", "t", "w", "o", "r", "k">>],
       [symbol |-> <<"d", "o", "g", "e">>, name |-> <<"d", "o", "g", "e", "c", "o", "i", "n">>],
       [symbol |-> <<"s", "h", "i", "b">>, name |-> <<"s", "h", "i", "b", "a", "-", "i", "n", "u">>],
       [symbol |-> <<"x", "r", "p">>, name |-> <<"r", "i", "p", "p", "l", "e">>],
       [symbol |-> <<"b", "n", "b">>, name |-> <<"b", "i", "n", "a", "n", "c", "e", "c", "o", "i", "n">>],
       [symbol |-> <<"u", "n", "i">>, name |-> <<"u", "n", "i", "s", "w", "a", "p">>],
       [symbol |-> <<"a", "t", "o", "m">>, name |-> <<"c", "o", "s", "m", "o", "s">>] >>

STOCK_KEYWORDS ==
    << <<"s", "t", "o", "c", "k">>,
       <<"s", "h", "a", "r", "e">>,
       <<"m", "a", "r", "k", "e", "t">> >>

CRYPTO_KEYWORDS ==
    << <<"c", "r", "y", "p", "t", "o">>,
       <<"b", "i", "t", "c", "o", "i", "n">>,
       <<"s", "o", "l", "a", "n", "a">> >>

HEALTH_KEYWORDS ==
    << <<"h", "e", "a", "l", "t", "h">>,
       <<"s", "y", "m", "p", "t", "o", "m">>,
       <<"i", "n", "s", "u", "r", "a", "n", "c", "e">> >>

UNKNOWN_REPLY ==
    <<"?", " ", "S", "o", "r", "r", "y", ",", " ", "I", " ", "c", "o", "u", "l", "d", "n", "'", "t", " ", "u", "n", "d", "e", "r", "s", "t", "a", "n", "d", " ", "y", "o", "u", "r", " ", "q", "u", "e", "r", "y", ".">>

(***************************************************************************)
(* The advisor: route_message.                                             *)
(***************************************************************************)
ANALYST_ADDRESS == "agent1q0ejvvp7x302ulx05389ncdfellmag6up4d2raa9v7dfrjarh4v52237sq7"

NEWS_ADDRESS == "agent1xyz..."

CRYPTO_ADDRESS == "agent1q0h70caed8ax769shpemapzkyk65uscw4xwk6dc4t3emvp5jdcvqs9xs32y"

SOLANA_ADDRESS == "agent1q0h70caed8ax769shpemapzkyk65uscw4xwk6dc4t3emvp5jdcvqs9xs32y"

HEALTH_ADDRESS == "agent1qv3dag4483k5dv4wkcncy65xpyrq4hgwk6nvuf0xzrhfz33cxaqj6xpg9c7"

\* ctx.send(to, ChatMessage(content=content))
Send(to, content) == [to |-> to, content |-> content]

\* route_message with the crypto keywords tested before the stock keywords.
RouteSendsCryptoFirst(content, from) ==
    LET lowered == Lower(content)
    IN  IF ContainsAny(lowered, CRYPTO_KEYWORDS)
        THEN <<Send(CRYPTO_ADDRESS, content), Send(SOLANA_ADDRESS, content)>>
        ELSE IF ContainsAny(lowered, STOCK_KEYWORDS)
        THEN <<Send(ANALYST_ADDRESS, content), Send(NEWS_ADDRESS, content)>>
        ELSE IF ContainsAny(lowered, HEALTH_KEYWORDS)
        THEN <<Send(HEALTH_ADDRESS, content)>>
        ELSE <<Send(from, UNKNOWN_REPLY)>>

\* route_message with the last health keyword forgotten.
RouteSendsKeywordDropped(content, from) ==
    LET lowered == Lower(content)
    IN  IF ContainsAny(lowered, STOCK_KEYWORDS)
        THEN <<Send(ANALYST_ADDRESS, content), Send(NEWS_ADDRESS, content)>>
        ELSE IF ContainsAny(lowered, CRYPTO_KEYWORDS)
        THEN <<Send(CRYPTO_ADDRESS, content), Send(SOLANA_ADDRESS, content)>>
        ELSE IF ContainsAny(lowered, SubSeq(HEALTH_KEYWORDS, 1, 2))
        THEN <<Send(HEALTH_ADDRESS, content)>>
        ELSE <<Send(from, UNKNOWN_REPLY)>>

\* The ctx.send calls of route_message for a message `content` from `from`,
\* in the order the handler makes them.
RouteSends(content, from) ==
    LET lowered == Lower(content)
    IN  IF ContainsAny(lowered, STOCK_KEYWORDS)
        THEN <<Send(ANALYST_ADDRESS, content), Send(NEWS_ADDRESS, content)>>
        ELSE IF ContainsAny(lowered, CRYPTO_KEYWORDS)
        THEN <<Send(CRYPTO_ADDRESS, content), Send(SOLANA_ADDRESS, content)>>
        ELSE IF ContainsAny(lowered, HEALTH_KEYWORDS)
        THEN <<Send(HEALTH_ADDRESS, content)>>
        ELSE <<Send(from, UNKNOWN_REPLY)>>

(***************************************************************************)
(* The token agent: extract_token_from_query.                              *)
(***************************************************************************)
\* An Optional value: None, or Some(v).
None == <<>>

Some(v) == <<v>>

TokenSymbols == {TOKEN_ID_MAP[i].symbol : i \in DOMAIN TOKEN_ID_MAP}

\* for token in TOKEN_ID_MAP.keys(): if re.search(fr'\b{token}\b', query): return token
RECURSIVE SymbolAsWord(_, _)
SymbolAsWord(q, i) ==
    IF i > Len(TOKEN_ID_MAP) THEN None
    ELSE IF SearchWord(q, TOKEN_ID_MAP[i].symbol) THEN Some(TOKEN_ID_MAP[i].symbol)
    ELSE SymbolAsWord(q, i + 1)

\* for symbol, name in TOKEN_ID_MAP.items(): if name in query.lower(): return symbol
RECURSIVE SymbolOfName(_, _)
SymbolOfName(q, i) ==
    IF i > Len(TOKEN_ID_MAP) THEN None
    ELSE IF Contains(Lower(q), TOKEN_ID_MAP[i].name) THEN Some(TOKEN_ID_MAP[i].symbol)
    ELSE SymbolOfName(q, i + 1)

AllLetters(s) == \A i \in DOMAIN s : IsLetter(s[i])

\* The length of the match of \b[A-Za-z]{3,5}\b that starts after the first p
\* characters of q (the quantifier is greedy: 5, then 4, then 3), or 0.
MatchLengthAt(q, p) ==
    LET fits(k) == /\ p + k <= Len(q)
                   /\ WordBoundary(q, p)
                   /\ AllLetters(SubSeq(q, p + 1, p + k))
                   /\ WordBoundary(q, p + k)
    IN  IF fits(5) THEN 5 ELSE IF fits(4) THEN 4 ELSE IF fits(3) THEN 3 ELSE 0

\* re.findall(r'\b[A-Za-z]{3,5}\b', q), scanning from the gap p.
RECURSIVE FindAllSymbolLike(_, _)
FindAllSymbolLike(q, p) ==
    IF p >= Len(q) THEN <<>>
    ELSE LET k == MatchLengthAt(q, p)
         IN  IF k = 0 THEN FindAllSymbolLike(q, p + 1)
             ELSE <<SubSeq(q, p + 1, p + k)>> \o FindAllSymbolLike(q, p + k)

\* for match in matches: if match.lower() in TOKEN_ID_MAP: return match.lower()
RECURSIVE FirstKnownMatch(_, _)
FirstKnownMatch(matches, i) ==
    IF i > Len(matches) THEN None
    ELSE IF Lower(matches[i]) \in TokenSymbols THEN Some(Lower(matches[i]))
    ELSE FirstKnownMatch(matches, i + 1)

\* extract_token_from_query with the full-name lookup tried before the
\* standalone-symbol search.
ExtractNameFirst(text) ==
    LET q      == Lower(text)
        asWord == SymbolAsWord(q, 1)
        byName == SymbolOfName(q, 1)
    IN  IF byName # None THEN byName
        ELSE IF asWord # None THEN asWord
        ELSE FirstKnownMatch(FindAllSymbolLike(q, 0), 1)

extract_token_from_query(text) ==
    LET q      == Lower(text)
        asWord == SymbolAsWord(q, 1)
        byName == SymbolOfName(q, 1)
    IN  IF asWord # None THEN asWord
        ELSE IF byName # None THEN byName
        ELSE FirstKnownMatch(FindAllSymbolLike(q, 0), 1)

(***************************************************************************)
(* The insurance agent: extract_insurance_info_from_query.                 *)
(***************************************************************************)
MAJOR_INSURANCE_COMPANIES ==
    << [key |-> <<"a", "e", "t", "n", "a">>, name |-> <<"A", "e", "t", "n", "a">>],
       [key |-> <<"a", "n", "t", "h", "e", "m">>, name |-> <<"A", "n", "t", "h", "e", "m">>],
       [key |-> <<"c", "i", "g", "n", "a">>, name |-> <<"C", "i", "g", "n", "a">>],
       [key |-> <<"h", "u", "m", "a", "n", "a">>, name |-> <<"H", "u", "m", "a", "n", "a">>],
       [key |-> <<"k", "a", "i", "s", "e", "r">>, name |-> <<"K", "a", "i", "s", "e", "r", " ", "P", "e", "r", "m", "a", "n", "e", "n", "t", "e">>],
       [key |-> <<"u", "n", "i", "t", "e", "d">>, name |-> <<"U", "n", "i", "t", "e", "d", "H", "e", "a", "l", "t", "h", "c", "a", "r", "e">>],
       [key |-> <<"b", "c", "b", "s">>, name |-> <<"B", "l", "u", "e", " ", "C", "r", "o", "s", "s", " ", "B", "l", "u", "e", " ", "S", "h", "i", "e", "l", "d">>],
       [key |-> <<"m", "e", "t", "l", "i", "f", "e">>, name |-> <<"M", "e", "t", "L", "i", "f", "e">>],
       [key |-> <<"p", "r", "u", "d", "e", "n", "t", "i", "a", "l">>, name |-> <<"P", "r", "u", "d", "e", "n", "t", "i", "a", "l">>],
       [key |-> <<"n", "e", "w", "y", "o", "r", "k", "l", "i", "f", "e">>, name |-> <<"N", "e", "w", " ", "Y", "o", "r", "k", " ", "L", "i", "f", "e">>],
       [key |-> <<"n", "o", "r", "t", "h", "w", "e", "s", "t", "e", "r", "n">>, name |-> <<"N", "o", "r", "t", "h", "w", "e", "s", "t", "e", "r", "n", " ", "M", "u", "t", "u", "a", "l">>],
       [key |-> <<"m", "a", "s", "s", "m", "u", "t", "u", "a", "l">>, name |-> <<"M", "a", "s", "s", "M", "u", "t", "u", "a", "l">>],
       [key |-> <<"l", "i", "n", "c", "o", "l", "n">>, name |-> <<"L", "i", "n", "c", "o", "l", "n", " ", "F", "i", "n", "a", "n", "c", "i", "a", "l">>],
       [key |-> <<"t", "r", "a", "n", "s", "a", "m", "e", "r", "i", "c", "a">>, name |-> <<"T", "r", "a", "n", "s", "a", "m", "e", "r", "i", "c", "a">>],
       [key |-> <<"a", "f", "l", "a", "c">>, name |-> <<"A", "f", "l", "a", "c">>] >>

INSURANCE_TYPES ==
    << [type |-> "health",
        keywords |-> << <<"m", "e", "d", "i", "c", "a", "l">>, <<"h", "e", "a", "l", "t", "h">>, <<"h", "e", "a", "l", "t", "h", "c", "a", "r", "e">>, <<"h", "m", "o">>, <<"p", "p", "o">>, <<"e", "p", "o">> >>],
       [type |-> "life",
        keywords |-> << <<"l", "i", "f", "e">>, <<"t", "e", "r", "m">>, <<"w", "h", "o", "l", "e">>, <<"u", "n", "i", "v", "e", "r", "s", "a", "l">>, <<"v", "a", "r", "i", "a", "b", "l", "e">> >>],
       [type |-> "disability",
        keywords |-> << <<"d", "i", "s", "a", "b", "i", "l", "i", "t", "y">>, <<"i", "n", "c", "o", "m", "e">>, <<"d", "i">> >>],
       [type |-> "long_term_care",
        keywords |-> << <<"l", "t", "c">>, <<"l", "o", "n", "g", " ", "t", "e", "r", "m", " ", "c", "a", "r", "e">>, <<"n", "u", "r", "s", "i", "n", "g">> >>],
       [type |-> "dental",
        keywords |-> << <<"d", "e", "n", "t", "a", "l">>, <<"o", "r", "t", "h", "o", "d", "o", "n", "t", "i", "c">> >>],
       [type |-> "vision",
        keywords |-> << <<"v", "i", "s", "i", "o", "n">>, <<"e", "y", "e">>, <<"o", "p", "t", "i", "c", "a", "l">> >>] >>

INSURANCE_STOCK_SYMBOLS ==
    { <<"u", "n", "i", "t", "e", "d">>,
      <<"a", "n", "t", "h", "e", "m">>,
      <<"c", "i", "g", "n", "a">>,
      <<"h", "u", "m", "a", "n", "a">>,
      <<"a", "e", "t", "n", "a">>,
      <<"m", "e", "t", "l", "i", "f", "e">>,
      <<"p", "r", "u", "d", "e", "n", "t", "i", "a", "l">>,
      <<"l", "i", "n", "c", "o", "l", "n">>,
      <<"a", "f", "l", "a", "c">> }

\* str.split(): the maximal runs of non-whitespace characters of s, with
\* `word` the run being read.
RECURSIVE SplitWords(_, _)
SplitWords(s, word) ==
    IF s = <<>> THEN (IF word = <<>> THEN <<>> ELSE <<word>>)
    ELSE IF Head(s) \in WhitespaceChars
    THEN (IF word = <<>> THEN <<>> ELSE <<word>>) \o SplitWords(Tail(s), <<>>)
    ELSE SplitWords(Tail(s), Append(word, Head(s)))

\* The test of one entry of MAJOR_INSURANCE_COMPANIES against the query.
CompanyMatches(q, entry) ==
    \/ Contains(q, entry.key)
    \/ Contains(q, Lower(entry.name))
    \/ ContainsAny(q, SplitWords(Lower(entry.name), <<>>))

\* The loop over MAJOR_INSURANCE_COMPANIES without its break: the last
\* entry that matches.
RECURSIVE LastCompany(_, _)
LastCompany(q, i) ==
    IF i > Len(MAJOR_INSURANCE_COMPANIES) THEN None
    ELSE IF LastCompany(q, i + 1) # None THEN LastCompany(q, i + 1)
    ELSE IF CompanyMatches(q, MAJOR_INSURANCE_COMPANIES[i])
    THEN Some(MAJOR_INSURANCE_COMPANIES[i])
    ELSE None

\* for key, company_data in MAJOR_INSURANCE_COMPANIES.items(): ... break
RECURSIVE FirstCompany(_, _)
FirstCompany(q, i) ==
    IF i > Len(MAJOR_INSURANCE_COMPANIES) THEN None
    ELSE IF CompanyMatches(q, MAJOR_INSURANCE_COMPANIES[i])
    THEN Some(MAJOR_INSURANCE_COMPANIES[i])
    ELSE FirstCompany(q, i + 1)

\* for ins_type, keywords in INSURANCE_TYPES.items(): ... break
RECURSIVE FirstInsuranceType(_, _)
FirstInsuranceType(q, i) ==
    IF i > Len(INSURANCE_TYPES) THEN None
    ELSE IF ContainsAny(q, INSURANCE_TYPES[i].keywords)
    THEN Some(INSURANCE_TYPES[i].type)
    ELSE FirstInsuranceType(q, i + 1)

\* result, before the loops
NoQueryInfo == [company |-> None, company_data |-> None, insurance_type |-> None]

\* The "company", "company_data" and "insurance_type" entries of the result.
extract_insurance_info_from_query(text) ==
    LET found == FirstCompany(Lower(text), 1)
    IN  [company        |-> IF found = None THEN None ELSE Some(found[1].key),
         company_data   |-> found,
         insurance_type |-> FirstInsuranceType(Lower(text), 1)]

(***************************************************************************)
(* Sentiment aggregation: analyze_sentiment of the token agent and         *)
(* analyze_insurance_sentiment of the insurance agent.                     *)
(*                                                                         *)
(* A text is a record [body, raises, compound]: `body` is the string,      *)
(* `compound` the value sia.polarity_scores(body)['compound'] in           *)
(* hundredths, and `raises` tells that scoring the text raises instead.    *)
(* The average is kept as the exact fraction num/den of hundredths.        *)
(***************************************************************************)
Text(body, raises, compound) ==
    [body |-> body, raises |-> raises, compound |-> compound]

\* A relevant item of a news response: its text and its source label.
Item(text, source) == [text |-> text, source |-> source]

Fraction(num, den) == [num |-> num, den |-> den]

\* The thresholds of the category bands, in hundredths.
VeryPositiveMin == 15

PositiveMin == 5

VeryNegativeMax == -15

NegativeMax == -5

\* The length sources is cut to in the result.
SourcesCap == 5

\* The number of texts previewed in 'analysis'.
PreviewTexts == 3

\* The collection step without the `not in sources` test.
CollectItemNoDedup(ts, item) ==
    [texts   |-> Append(ts.texts, item.text),
     sources |-> Append(ts.sources, item.source)]

\* texts.append(title); if source_name not in sources: sources.append(source_name)
CollectItem(ts, item) ==
    [texts   |-> Append(ts.texts, item.text),
     sources |-> IF item.source \in Range(ts.sources)
                 THEN ts.sources
                 ELSE Append(ts.sources, item.source)]

\* str.strip()
RECURSIVE Strip(_)
Strip(s) ==
    IF s = <<>> THEN s
    ELSE IF Head(s) \in WhitespaceChars THEN Strip(Tail(s))
    ELSE IF s[Len(s)] \in WhitespaceChars THEN Strip(SubSeq(s, 1, Len(s) - 1))
    ELSE s

\* if text and isinstance(text, str) and len(text.strip()) > 0
Scoreable(text) == text.body # <<>> /\ Len(Strip(text.body)) > 0

\* The scoring loop with `break` in the except clause instead of `continue`.
RECURSIVE ScoreTextsAbortOnRaise(_, _, _)
ScoreTextsAbortOnRaise(ts, i, scores) ==
    IF i > Len(ts) THEN scores
    ELSE IF ~Scoreable(ts[i]) THEN ScoreTextsAbortOnRaise(ts, i + 1, scores)
    ELSE IF ts[i].raises THEN scores
    ELSE ScoreTextsAbortOnRaise(ts, i + 1, Append(scores, ts[i].compound))

\* The scoring loop without the test for empty and blank texts.
RECURSIVE ScoreTextsCountBlank(_, _, _)
ScoreTextsCountBlank(ts, i, scores) ==
    IF i > Len(ts) THEN scores
    ELSE IF ts[i].raises THEN ScoreTextsCountBlank(ts, i + 1, scores)
    ELSE ScoreTextsCountBlank(ts, i + 1, Append(scores, ts[i].compound))

\* The loop over texts of analyze_sentiment: the list `scores` after the
\* texts from index i on have been visited.
RECURSIVE ScoreTexts(_, _, _)
ScoreTexts(ts, i, scores) ==
    IF i > Len(ts) THEN scores
    ELSE IF ~Scoreable(ts[i]) THEN ScoreTexts(ts, i + 1, scores)
    ELSE IF ts[i].raises THEN ScoreTexts(ts, i + 1, scores)
    ELSE ScoreTexts(ts, i + 1, Append(scores, ts[i].compound))

\* The loop over texts of analyze_insurance_sentiment.
RECURSIVE InsuranceScoreTexts(_, _, _)
InsuranceScoreTexts(ts, i, scores) ==
    IF i > Len(ts) THEN scores
    ELSE IF ts[i].raises THEN InsuranceScoreTexts(ts, i + 1, scores)
    ELSE InsuranceScoreTexts(ts, i + 1, Append(scores, ts[i].compound))

\* sum(scores)
RECURSIVE Sum(_)
Sum(scores) == IF scores = <<>> THEN 0 ELSE Head(scores) + Sum(Tail(scores))

\* The average with floor division (// for /).
AverageFloored(scores) == Fraction(Sum(scores) \div Len(scores), 1)

\* avg_score = sum(scores) / len(scores)
Average(scores) == Fraction(Sum(scores), Len(scores))

\* The chain with strict comparisons (> for >=, < for <=).
CategorizeStrict(avg) ==
    IF avg.num > VeryPositiveMin * avg.den THEN "very positive"
    ELSE IF avg.num > PositiveMin * avg.den THEN "positive"
    ELSE IF avg.num < VeryNegativeMax * avg.den THEN "very negative"
    ELSE IF avg.num < NegativeMax * avg.den THEN "negative"
    ELSE "neutral"

\* The if/elif chain of analyze_sentiment over avg_score.
Categorize(avg) ==
    IF avg.num >= VeryPositiveMin * avg.den THEN "very positive"
    ELSE IF avg.num >= PositiveMin * avg.den THEN "positive"
    ELSE IF avg.num <= VeryNegativeMax * avg.den THEN "very negative"
    ELSE IF avg.num <= NegativeMax * avg.den THEN "negative"
    ELSE "neutral"

\* The if/elif chain of analyze_insurance_sentiment over avg_score.
InsuranceCategorize(avg) ==
    IF avg.num >= VeryPositiveMin * avg.den THEN "very positive"
    ELSE IF avg.num >= PositiveMin * avg.den THEN "positive"
    ELSE IF avg.num <= VeryNegativeMax * avg.den THEN "very negative"
    ELSE IF avg.num <= NegativeMax * avg.den THEN "negative"
    ELSE "neutral"

\* s[:n]
Take(s, n) == SubSeq(s, 1, IF Len(s) < n THEN Len(s) ELSE n)

Bodies(ts) == [i \in DOMAIN ts |-> ts[i].body]

\* The 'analysis' entry: absent, the default sentence, or a preview of texts.
Analysis(kind, previewed) == [kind |-> kind, texts |-> previewed]

SentimentResult(score, category, size, srcs, note) ==
    [sentiment_score    |-> score,
     sentiment_category |-> category,
     sample_size        |-> size,
     sources            |-> srcs,
     analysis           |-> note]

\* The part of analyze_sentiment after collection ("Analyze sentiment in all
\* collected texts"): the dictionary it returns for texts ts and sources srcs.
AnalyzeTexts(ts, srcs) ==
    IF ts = <<>>
    THEN SentimentResult(Fraction(0, 1), "neutral", 0, <<"No data">>,
                         Analysis("absent", <<>>))
    ELSE LET scores == ScoreTexts(ts, 1, <<>>)
         IN  IF scores = <<>>
             THEN SentimentResult(Fraction(0, 1), "neutral", 0, <<>>,
                                  Analysis("default", <<>>))
             ELSE SentimentResult(Average(scores), Categorize(Average(scores)),
                                  Len(scores), Take(srcs, SourcesCap),
                                  Analysis("preview", Bodies(Take(ts, PreviewTexts))))

\* The loop over the relevant items ss of the responses: texts and sources
\* after the items from index i on have been met.
RECURSIVE CollectAll(_, _, _)
CollectAll(ss, i, ts) ==
    IF i > Len(ss) THEN ts ELSE CollectAll(ss, i + 1, CollectItem(ts, ss[i]))

\* analyze_sentiment for a run that meets the relevant items ss.
Aggregate(ss) ==
    LET collected == CollectAll(ss, 1, [texts |-> <<>>, sources |-> <<>>])
    IN  AnalyzeTexts(collected.texts, collected.sources)

\* The scoring part of analyze_insurance_sentiment.
InsuranceAnalyzeTexts(ts, srcs) ==
    LET scores == InsuranceScoreTexts(ts, 1, <<>>)
    IN  IF ts # <<>> /\ scores # <<>>
        THEN SentimentResult(Average(scores), InsuranceCategorize(Average(scores)),
                             Len(scores), srcs,
                             Analysis("preview", Bodies(Take(ts, PreviewTexts))))
        ELSE SentimentResult(Fraction(0, 1), "neutral", 0,
                             <<"Limited data available">>, Analysis("absent", <<>>))

\* The relevant items the news responses can hold: a status update with an
\* empty and one with a blank description, a text whose scoring raises, and
\* three texts of different polarity, each from a source of its own.
NewsItems ==
    { Item(Text(<<>>, FALSE, 0), "CoinGecko Status"),
      Item(Text(<<" ", " ">>, FALSE, 0), "News"),
      Item(Text(<<"r">>, TRUE, 0), "CryptoCompare"),
      Item(Text(<<"u", "p">>, FALSE, 15), "CoinGecko"),
      Item(Text(<<"d", "o", "w", "n">>, FALSE, -15), "NewsAPI"),
      Item(Text(<<" ", "o", "k", " ">>, FALSE, 5), "CoinDesk") }

\* The most texts one run collects.
MaxTexts == 6

\* The five sample texts of analyze_insurance_sentiment: what VADER makes of
\* each is not fixed by the code.
InsuranceSampleCount == 5

InsuranceTexts ==
    { Text(<<"n">>, FALSE, 0), Text(<<"r">>, TRUE, 0),
      Text(<<"u">>, FALSE, 15), Text(<<"d">>, FALSE, -15),
      Text(<<"o">>, FALSE, 5) }

NoResult ==
    SentimentResult(Fraction(0, 1), "none", 0, <<>>, Analysis("absent", <<>>))

(***************************************************************************)
(* The chat handlers: handle_chat_message of the token agent and of the    *)
(* insurance agent, with get_token_outlook and get_insurance_analysis.     *)
(***************************************************************************)
\* max_retries of the LLM retry loop.
max_retries == 3

\* The fetches counted in `calls`.
NoCalls == [price |-> 0, sentiment |-> 0, market |-> 0, llm |-> 0]

Called(c, kind) == [c EXCEPT ![kind] = @ + 1]

\* A price or market-data result: absent (None), an error dictionary, or
\* data with its 24h change.
NoData == [present |-> FALSE, error |-> FALSE, message |-> "", change |-> 0]

ErrorData == [present |-> TRUE, error |-> TRUE, message |-> "error", change |-> 0]

Data(change) ==
    [present |-> TRUE, error |-> FALSE, message |-> "", change |-> change]

\* What the price provider does with the request of get_crypto_price: the
\* request fails, the status is bad, the body is no JSON, or it is JSON
\* (`change` is its market_data.price_change_percentage_24h, None for null).
Reply(kind, change) == [kind |-> kind, change |-> change]

RequestFailures == {"connection error", "timeout", "bad status"}

\* {"error": ..., **default_data}
PriceFailure(message) == [ErrorData EXCEPT !.message = message]

\* get_crypto_price without the test for 'market_data' in the payload.
GetCryptoPriceUnchecked(reply) ==
    IF reply.kind \in RequestFailures THEN PriceFailure("Network error")
    ELSE IF reply.kind = "invalid json"
    THEN PriceFailure("Invalid JSON response from API")
    ELSE IF reply.kind = "malformed market_data"
    THEN PriceFailure("Error fetching price data")
    ELSE Data(IF reply.change = None THEN 0 ELSE reply.change[1])

\* get_crypto_price: its result for each reply of the provider.
get_crypto_price(reply) ==
    IF reply.kind \in RequestFailures THEN PriceFailure("Network error")
    ELSE IF reply.kind = "invalid json"
    THEN PriceFailure("Invalid JSON response from API")
    ELSE IF reply.kind \in {"not a dict", "no market_data"}
    THEN PriceFailure("Unexpected API response structure")
    ELSE IF reply.kind = "malformed market_data"
    THEN PriceFailure("Error fetching price data")
    ELSE Data(IF reply.change = None THEN 0 ELSE reply.change[1])

\* if not analysis
NotAnalysis(a) == a = None \/ a = Some("")

FALLBACK_ANALYSIS == "fallback analysis"

\* fallback_analysis with the categories of analyze_sentiment in the place of
\* "bullish" and "bearish".
FallbackAnalysisByPolarity(data, sentiment) ==
    LET category == sentiment.sentiment_category
        bullish  == category \in {"positive", "very positive"}
        bearish  == category \in {"negative", "very negative"}
    IN  IF bullish /\ data.change > 0
        THEN "continued upward movement"
        ELSE IF bearish /\ data.change < 0
        THEN "continuation of selling pressure"
        ELSE IF bullish /\ data.change < 0
        THEN "possible reversal or stabilization"
        ELSE IF bearish /\ data.change > 0
        THEN "resistance to continued movement"
        ELSE "moment of indecision"

\* fallback_analysis(price_data, sentiment_data): the text is told by the
\* branch its short-term outlook takes.
fallback_analysis(data, sentiment) ==
    LET category == sentiment.sentiment_category
    IN  IF category = "bullish" /\ data.change > 0
        THEN "continued upward movement"
        ELSE IF category = "bearish" /\ data.change < 0
        THEN "continuation of selling pressure"
        ELSE IF category = "bullish" /\ data.change < 0
        THEN "possible reversal or stabilization"
        ELSE IF category = "bearish" /\ data.change > 0
        THEN "resistance to continued movement"
        ELSE "moment of indecision"

\* A text to send: the clarification, an error string, or the rendered
\* analysis, which is a function of the data named in it.
ResponseText(kind, data, sentiment, text) ==
    [kind |-> kind, data |-> data, sentiment |-> sentiment, analysis |-> text]

NoResponse == ResponseText("none", NoData, NoResult, None)

\* The clarification of either agent.
Clarification(agent) ==
    ResponseText(IF agent = "token" THEN "token clarification"
                 ELSE "insurance clarification", NoData, NoResult, None)

\* return f"Error: {price_data['error']}"
PriceError(data) == ResponseText("price error", data, NoResult, None)

\* return f"Error in sentiment analysis: {sentiment_data['error']}"
SentimentError(data) == ResponseText("sentiment error", data, NoResult, None)

\* The template with the computed analysis rendered in it.
TokenOutlookWithAnalysis(data, sentiment) ==
    ResponseText("token outlook", data, sentiment, analysis)

\* The template at the end of get_token_outlook: it renders price_data and
\* sentiment_data, and no part of `analysis`.
TokenOutlook(data, sentiment) == ResponseText("token outlook", data, sentiment, None)

\* format_insurance_response(query_info, market_data, sentiment_data, analysis)
InsuranceResponse(data, sentiment, text) ==
    ResponseText("insurance analysis", data, sentiment, text)

\* ctx.send(to, message): `format` is "chat" for a ChatMessage and "alt" for
\* the dictionary {"message": response}; ok tells whether the call returned.
ChatSend(to, text, format, ok) ==
    [to |-> to, text |-> text, format |-> format, ok |-> ok]

\* user_message: the text of the first content item, or str(content_list)
\* for an empty list.
UserMessage(c) == IF c # <<>> THEN c[1] ELSE <<"[", "]">>

IdleChat ==
    /\ chatAgent = "none"
    /\ chatSender = "alice"
    /\ content_list = <<>>
    /\ llmKey = FALSE
    /\ chatPc = "idle"
    /\ token_symbol = None
    /\ query_info = NoQueryInfo
    /\ calls = NoCalls
    /\ price_data = NoData
    /\ sentiment_data = NoResult
    /\ retry_count = 0
    /\ analysis = None
    /\ waits = <<>>
    /\ llm_outcomes = <<>>
    /\ response = NoResponse
    /\ chatSent = <<>>

(***************************************************************************)
(* The health agents: the CLI (src/health/main.py), the collector, the     *)
(* analyser, the ASI wrapper and the insurance agent.                      *)
(***************************************************************************)
ANALYSER_AGENT == "agent1qdkulla80gkjdumy6qp867x6u9wwqkrya0r4eks6zs520lqp6r3g200d83u"

COLLECTOR_AGENT == "agent1qv35ejh6fx6p5smyqzk9ts2qklhkk7gn5470nt0x3s7an3f7jvfxvlf5222"

INSURANCE_AGENT == "agent1qvwjtya8ncl5shwr7m8p80jw7l20lplt0ahtx40gzl3vsaeq4jr3kzuhfz4"

ASI_AGENT_ID == "agent1qt69zmtdwud67k7t3nmp353l0y7u8j3q6t9fdy6f4v54258huxre6pnxgwz"

CLI_AGENT_ADDRESS == "agent1qv3dag4483k5dv4wkcncy65xpyrq4hgwk6nvuf0xzrhfz33cxaqj6xpg9c7"

\* route_query: the words that send a query to the analyser.
MEDICATION_WORDS ==
    << <<"m", "e", "d", "i", "c", "a", "t", "i", "o", "n">>,
       <<"p", "i", "l", "l">>,
       <<"r", "e", "m", "i", "n", "d", "e", "r">>,
       <<"d", "o", "s", "e">>,
       <<"t", "a", "b", "l", "e", "t">> >>

\* receive_analysis: serious_keywords.
serious_keywords ==
    << <<"c", "h", "e", "s", "t", " ", "p", "a", "i", "n">>,
       <<"e", "m", "e", "r", "g", "e", "n", "c", "y">>,
       <<"c", "r", "i", "t", "i", "c", "a", "l">>,
       <<"s", "h", "o", "r", "t", "n", "e", "s", "s", " ", "o", "f", " ", "b", "r",
         "e", "a", "t", "h">>,
       <<"l", "i", "f", "e", "-", "t", "h", "r", "e", "a", "t", "e", "n", "i", "n",
         "g">>,
       <<"s", "e", "r", "i", "o", "u", "s">>,
       <<"t", "h", "i", "s", " ", "c", "o", "n", "d", "i", "t", "i", "o", "n", " ",
         "m", "a", "y", " ", "b", "e", " ", "s", "e", "r", "i", "o", "u", "s">> >>

\* startup: the keywords of its own check for serious conditions.
CLI_SERIOUS_KEYWORDS ==
    << <<"s", "e", "r", "i", "o", "u", "s">>,
       <<"e", "m", "e", "r", "g", "e", "n", "c", "y">>,
       <<"c", "r", "i", "t", "i", "c", "a", "l">>,
       <<"l", "i", "f", "e", "-", "t", "h", "r", "e", "a", "t", "e", "n", "i", "n",
         "g">>,
       <<"c", "h", "e", "s", "t", " ", "p", "a", "i", "n">> >>

\* receive_analysis: prompt.
INSURANCE_PROMPT ==
    <<"D", "o", " ", "y", "o", "u", " ", "h", "a", "v", "e", " ", "h", "e",
      "a", "l", "t", "h", " ", "i", "n", "s", "u", "r", "a", "n", "c", "e",
      "?", " ", "I", "f", " ", "n", "o", "t", ",", " ", "p", "l", "e", "a",
      "s", "e", " ", "e", "n", "t", "e", "r", " ", "y", "o", "u", "r", " ",
      "m", "o", "n", "t", "h", "l", "y", " ", "i", "n", "c", "o", "m", "e",
      ".">>

\* prompting of the collector: the text before and after the query.
COLLECTOR_PROMPT_HEAD ==
    <<"B", "a", "s", "e", "d", " ", "o", "n", " ", "t", "h", "e", " ", "f",
      "o", "l", "l", "o", "w", "i", "n", "g", " ", "s", "y", "m", "p", "t",
      "o", "m", "s", ":", " ">>

COLLECTOR_PROMPT_TAIL ==
    <<",", " ", "s", "u", "g", "g", "e", "s", "t", " ", "p", "o", "s", "s",
      "i", "b", "l", "e", " ", "c", "a", "u", "s", "e", "s", " ", "a", "n",
      "d", " ", "r", "e", "c", "o", "m", "m", "e", "n", "d", " ", "n", "e",
      "x", "t", " ", "s", "t", "e", "p", "s", " ", "o", "r", " ", "a", "c",
      "t", "i", "o", "n", "s", " ", "t", "h", "e", " ", "u", "s", "e", "r",
      " ", "s", "h", "o", "u", "l", "d", " ", "t", "a", "k", "e", ",", " ",
      "s", "u", "c", "h", " ", "a", "s", " ", "h", "o", "m", "e", " ", "r",
      "e", "m", "e", "d", "i", "e", "s", ",", " ", "c", "o", "n", "s", "u",
      "l", "t", "i", "n", "g", " ", "a", " ", "d", "o", "c", "t", "o", "r",
      ",", " ", "o", "r", " ", "e", "m", "e", "r", "g", "e", "n", "c", "y",
      " ", "c", "a", "r", "e", ".">>

\* prompting of the analyser: the text before and after the query.
ANALYSER_PROMPT_HEAD ==
    <<"R", "e", "s", "p", "o", "n", "d", " ", "t", "o", " ", "t", "h", "e",
      " ", "f", "o", "l", "l", "o", "w", "i", "n", "g", " ", "u", "s", "e",
      "r", " ", "r", "e", "q", "u", "e", "s", "t", " ", "a", "b", "o", "u",
      "t", " ", "m", "e", "d", "i", "c", "a", "t", "i", "o", "n", ":", " ">>

ANALYSER_PROMPT_TAIL ==
    <<".", " ", "P", "r", "o", "v", "i", "d", "e", " ", "r", "e", "m", "i",
      "n", "d", "e", "r", "s", ",", " ", "d", "o", "s", "a", "g", "e", " ",
      "i", "n", "f", "o", ",", " ", "o", "r", " ", "a", "n", "y", " ", "s",
      "a", "f", "e", "t", "y", " ", "s", "u", "g", "g", "e", "s", "t", "i",
      "o", "n", "s", " ", "a", "s", " ", "n", "e", "e", "d", "e", "d", ".">>

\* handle_query: the text before the query in the mocked response.
MOCK_ASI_HEAD ==
    <<"[", "M", "o", "c", "k", " ", "A", "S", "I", " ", "R", "e", "s", "p",
      "o", "n", "s", "e", "]", " ", "I", "n", "s", "i", "g", "h", "t", " ",
      "b", "a", "s", "e", "d", " ", "o", "n", " ", "y", "o", "u", "r", " ",
      "q", "u", "e", "r", "y", ":", " ">>

\* analyze_and_respond: the text before the response in the summary.
ANALYZED_HEAD ==
    <<"[", "A", "n", "a", "l", "y", "z", "e", "d", "]", " ">>

\* route_query
route_query(q) ==
    IF ContainsAny(Lower(q), MEDICATION_WORDS) THEN ANALYSER_AGENT ELSE COLLECTOR_AGENT

\* prompting, of the collector and of the analyser
CollectorPrompting(q) == COLLECTOR_PROMPT_HEAD \o q \o COLLECTOR_PROMPT_TAIL

AnalyserPrompting(q) == ANALYSER_PROMPT_HEAD \o q \o ANALYSER_PROMPT_TAIL

\* str.isdigit
IsDigit(s) == s # <<>> /\ \A i \in DOMAIN s : s[i] \in DigitChars

DecimalDigits == <<"0", "1", "2", "3", "4", "5", "6", "7", "8", "9">>

\* int(user_input) of a string of digits
RECURSIVE ParseInt(_)
ParseInt(s) ==
    IF s = <<>> THEN 0
    ELSE 10 * ParseInt(SubSeq(s, 1, Len(s) - 1))
         + (CHOOSE d \in 0..9 : DecimalDigits[d + 1] = s[Len(s)])

\* get_top_insurance_plans
get_top_insurance_plans(income) ==
    IF income < 20000
    THEN <<"Star Health Medi-Classic", "Care Health Joy Plan", "HDFC ERGO Health Suraksha">>
    ELSE IF income < 50000
    THEN <<"Niva Bupa ReAssure", "ICICI Lombard iHealth", "Tata AIG Medicare">>
    ELSE <<"Max Bupa Health Companion", "HDFC ERGO Optima Restore", "Religare Care Supreme">>

\* A message between agents.  `text` is the query or response of a Message,
\* ASI1miniRequest, ASI1miniResponse or SymptomResponse and the options of an
\* InsuranceOptions; `income` is the income of an InsuranceQuery; `of` is
\* the number of the user's input the message descends from.
Msg(to, from, kind, text, income, of) ==
    [to |-> to, from |-> from, kind |-> kind, text |-> text, income |-> income,
     of |-> of]

\* receive_analysis with "chest pain" missing from serious_keywords.
ReceiveAnalysisSendsNoChestPain(msg) ==
    IF ContainsAny(Lower(msg.text), Tail(serious_keywords))
    THEN <<Msg(CLI_AGENT_ADDRESS, INSURANCE_AGENT, "SymptomResponse",
               INSURANCE_PROMPT, 0, msg.of)>>
    ELSE <<>>

\* receive_analysis: the messages it sends for an analysed response.
ReceiveAnalysisSends(msg) ==
    IF ContainsAny(Lower(msg.text), serious_keywords)
    THEN <<Msg(CLI_AGENT_ADDRESS, INSURANCE_AGENT, "SymptomResponse",
               INSURANCE_PROMPT, 0, msg.of)>>
    ELSE <<>>

IdleHealth ==
    /\ cliPc = "idle"
    /\ inputs = 0
    /\ current = 0
    /\ network = {}
    /\ response_queue = <<>>
    /\ printed = <<>>
    /\ insurance_handled = FALSE
    /\ analysed = {}

(***************************************************************************)
(* format_currency and format_percent of get_token_outlook.  A number is   *)
(* m * 10^e with an integer m, so that amounts beyond 10^9 are exact.      *)
(***************************************************************************)
Number(m, e) == [m |-> m, e |-> e]

RECURSIVE Pow10(_)
Pow10(n) == IF n = 0 THEN 1 ELSE 10 * Pow10(n - 1)

\* value >= 10^k
AtLeastPow10(v, k) ==
    IF v.m <= 0 THEN FALSE
    ELSE IF v.e >= k THEN TRUE
    ELSE IF k - v.e > 9 THEN FALSE
    ELSE v.m >= Pow10(k - v.e)

\* The decimal digits of a natural number.
RECURSIVE DigitsOf(_)
DigitsOf(n) ==
    IF n < 10 THEN <<DecimalDigits[n + 1]>>
    ELSE Append(DigitsOf(n \div 10), DecimalDigits[(n % 10) + 1])

Zeros(n) == [i \in 1..n |-> "0"]

\* |value| / 10^k in units of 10^-places, before rounding: the quotient
\* and what is left of the division.
Scaled(v, k, places) ==
    LET a   == IF v.m < 0 THEN -v.m ELSE v.m
        den == Pow10(k - v.e)
    IN  [q |-> (a * Pow10(places)) \div den, r |-> (a * Pow10(places)) % den, den |-> den]

\* The value lies exactly between two neighbours of `places` decimals, where
\* the digit printed depends on the binary representation of the float.
IsTie(v, k, places) ==
    /\ v.e < k
    /\ k - v.e <= 9
    /\ 2 * Scaled(v, k, places).r = Scaled(v, k, places).den

\* f'{value / 10**k:.{places}f}'
Fixed(v, k, places) ==
    LET sign == IF v.m < 0 THEN <<"-">> ELSE <<>>
        a    == IF v.m < 0 THEN -v.m ELSE v.m
    IN  IF v.e >= k
        THEN sign \o (IF a = 0 THEN <<"0">> ELSE DigitsOf(a) \o Zeros(v.e - k))
                  \o <<".">> \o Zeros(places)
        ELSE LET s       == Scaled(v, k, places)
                 rounded == IF 2 * s.r > s.den \/ (2 * s.r = s.den /\ s.q % 2 = 1)
                            THEN s.q + 1 ELSE s.q
                 frac    == DigitsOf(rounded % Pow10(places))
             IN  sign \o DigitsOf(rounded \div Pow10(places)) \o <<".">>
                      \o Zeros(places - Len(frac)) \o frac

\* format_currency with strict comparisons at the thresholds.
FormatCurrencyStrict(v) ==
    IF AtLeastPow10(v, 9) /\ v # Number(1, 9)
    THEN <<"$">> \o Fixed(v, 9, 2) \o <<"B">>
    ELSE IF AtLeastPow10(v, 6) /\ v # Number(1, 6)
    THEN <<"$">> \o Fixed(v, 6, 2) \o <<"M">>
    ELSE IF AtLeastPow10(v, 3) /\ v # Number(1, 3)
    THEN <<"$">> \o Fixed(v, 3, 1) \o <<"K">>
    ELSE <<"$">> \o Fixed(v, 0, 2)

\* format_currency
format_currency(v) ==
    IF AtLeastPow10(v, 9) THEN <<"$">> \o Fixed(v, 9, 2) \o <<"B">>
    ELSE IF AtLeastPow10(v, 6) THEN <<"$">> \o Fixed(v, 6, 2) \o <<"M">>
    ELSE IF AtLeastPow10(v, 3) THEN <<"$">> \o Fixed(v, 3, 1) \o <<"K">>
    ELSE <<"$">> \o Fixed(v, 0, 2)

\* format_percent
format_percent(v) ==
    IF v.m > 0 THEN <<"+">> \o Fixed(v, 0, 2) \o <<"%">>
    ELSE Fixed(v, 0, 2) \o <<"%">>

(***************************************************************************)
(* The collection of analyze_sentiment: its loop over NEWS_SOURCES and its *)
(* loop over MARKET_DATA_SOURCES, with the texts counted.                  *)
(***************************************************************************)
NEWS_SOURCES ==
    <<"coins/markets by market cap", "coins/markets by volume", "news",
      "status_updates", "cryptocompare news">>

MARKET_DATA_SOURCES == <<"market_chart", "tickers", "coin data">>

\* What one requests.get of a news source leads to: `items` texts are
\* appended; "ok" is a body processed to the end, "raised" an exception in
\* the middle of the processing, and the others fail before any item.
NewsOutcome(kind, items) == [kind |-> kind, items |-> items]

\* The test before each source with a third source asked for.
EnoughNewsOfThree(successful, count) == successful >= 3 /\ count >= 10

\* if successful_sources >= 2 and len(texts) >= 10: break
EnoughNews(successful, count) == successful >= 2 /\ count >= 10

\* if len(texts) < 5
NeedsMarketData(count) == count < 5

IdleNews ==
    /\ newsPc = "idle"
    /\ source_index = 1
    /\ market_index = 1
    /\ texts_count = 0
    /\ successful_sources = 0
    /\ requested = <<>>
    /\ news_outcomes = <<>>

(***************************************************************************)
(* The Solana wallet agent: its chat handlers (chat_proto.py), the         *)
(* service functions, and handle_request of the wallet protocol.           *)
(***************************************************************************)
AI_AGENT_ADDRESS == "ai agent"

Sessions == {"s1", "s2"}

\* One item of msg.content: "start-session", "text", "end-session", or
\* another type of the chat protocol.
ContentItem(type, text) == [type |-> type, text |-> text]

ChatMessage(msg_id, content) == [msg_id |-> msg_id, content |-> content]

NoChatMessage == ChatMessage("", <<>>)

\* msg.output as the handler reads it: it holds "<UNKNOWN>", or it does not
\* parse as a SolanaActionRequest, or it parses to an address and an action.
Output(kind, address, action) ==
    [kind |-> kind, address |-> address, action |-> action]

NoOutput == Output("none", "", <<>>)

\* ctx.send(to, message): `kind` names the message model, `ref` is what it
\* carries (the acknowledged msg_id, the prompt, the balance, the error),
\* `content` the content of a ChatMessage; ok tells whether the call returned.
SolanaSend(to, kind, ref, content, ok) ==
    [to |-> to, kind |-> kind, ref |-> ref, content |-> content, ok |-> ok]

\* create_text_chat that never appends the end-session content.
CreateTextChatOpen(text, end_session) == <<ContentItem("text", text)>>

\* create_text_chat(text, end_session): the content of the ChatMessage.
create_text_chat(text, end_session) ==
    <<ContentItem("text", text)>>
        \o (IF end_session THEN <<ContentItem("end-session", "")>> ELSE <<>>)

\* ctx.send(session_sender, create_text_chat(text))
ChatReply(to, text, ok) ==
    SolanaSend(to, "ChatMessage", "", create_text_chat(text, TRUE), ok)

\* One key for every session.
StorageKeyShared(session) == "s1"

\* str(ctx.session)
StorageKey(session) == session

\* The loop of handle_message with every item but the start of a session
\* forwarded.
RECURSIVE PromptsForAllButStart(_)
PromptsForAllButStart(content) ==
    IF content = <<>> THEN <<>>
    ELSE LET item == Head(content)
         IN  (IF item.type = "start-session" THEN <<>>
              ELSE <<SolanaSend(AI_AGENT_ADDRESS, "StructuredOutputPrompt",
                                item.text, <<>>, TRUE)>>)
                 \o PromptsForAllButStart(Tail(content))

\* `for item in msg.content` of handle_message: the sends it makes.
RECURSIVE PromptsFor(_)
PromptsFor(content) ==
    IF content = <<>> THEN <<>>
    ELSE LET item == Head(content)
         IN  (IF item.type = "start-session" THEN <<>>
              ELSE IF item.type = "text"
              THEN <<SolanaSend(AI_AGENT_ADDRESS, "StructuredOutputPrompt",
                                item.text, <<>>, TRUE)>>
              ELSE <<>>)
                 \o PromptsFor(Tail(content))

\* The ctx.send calls of handle_message when none raises.
HandleMessageSends(from, msg) ==
    <<SolanaSend(from, "ChatAcknowledgement", msg.msg_id, <<>>, TRUE)>>
        \o PromptsFor(msg.content)

\* The calls made when the failAt-th raises (0: none does): the handler has
\* no try, so the call that raises is its last.
SendsUntilRaise(planned, failAt) ==
    IF failAt = 0 THEN planned
    ELSE LET called == [i \in 1..failAt |->
                            IF i = failAt THEN [planned[i] EXCEPT !.ok = FALSE]
                            ELSE planned[i]]
         IN  SubSeq(called, 1, failAt)

\* The dispatch with the token group tested first.
SolanaServiceTokenFirst(action) ==
    LET lowered == Lower(action)
    IN  IF Contains(lowered, <<"t", "o", "k", "e", "n">>)
        THEN "get_token_balances"
        ELSE IF \/ Contains(lowered, <<"t", "r", "a", "n", "s", "a", "c", "t", "i", "o", "n">>)
                \/ Contains(lowered, <<"h", "i", "s", "t", "o", "r", "y">>)
                \/ Contains(lowered, <<"r", "e", "c", "e", "n", "t">>)
        THEN "get_recent_transactions"
        ELSE IF \/ Contains(lowered, <<"i", "n", "f", "o">>)
                \/ Contains(lowered, <<"a", "c", "c", "o", "u", "n", "t">>)
        THEN "get_account_info"
        ELSE "get_balance_from_address"

\* The if/elif chain over wallet_request.action.lower(): the service
\* function that is called.
SolanaService(action) ==
    LET lowered == Lower(action)
    IN  IF \/ Contains(lowered, <<"t", "r", "a", "n", "s", "a", "c", "t", "i", "o", "n">>)
           \/ Contains(lowered, <<"h", "i", "s", "t", "o", "r", "y">>)
           \/ Contains(lowered, <<"r", "e", "c", "e", "n", "t">>)
        THEN "get_recent_transactions"
        ELSE IF Contains(lowered, <<"t", "o", "k", "e", "n">>)
        THEN "get_token_balances"
        ELSE IF \/ Contains(lowered, <<"i", "n", "f", "o">>)
                \/ Contains(lowered, <<"a", "c", "c", "o", "u", "n", "t">>)
        THEN "get_account_info"
        ELSE "get_balance_from_address"

\* response_text of the branch: an error text when the service returned a
\* string (the balance is rendered whatever it is).
ResponseTextOf(service, fetched) ==
    CASE service = "get_recent_transactions" ->
            IF fetched = "error" THEN "Error fetching transactions"
            ELSE "Recent Transactions"
      [] service = "get_token_balances" ->
            IF fetched = "error" THEN "Error fetching token balances"
            ELSE "Token Balances"
      [] service = "get_account_info" ->
            IF fetched = "error" THEN "Error fetching account info"
            ELSE "Account Info"
      [] OTHER -> "Wallet Balance"

UNKNOWN_TEXT == "Sorry, I couldn't process your request. Please include a valid Solana wallet address."

NO_ADDRESS_TEXT == "Sorry, I couldn't find a valid Solana wallet address in your query."

TRY_LATER_TEXT == "Sorry, I couldn't process your request. Please try again later."

\* What the body of handle_structured_output_response does for a stored
\* sender: the service calls, the sends, and whether it returns.  ok1 and
\* ok2 tell whether its first and second ctx.send return.
StructuredOutputRun(session_sender, output, fetched, ok1, ok2) ==
    LET later(ok) == ChatReply(session_sender, TRY_LATER_TEXT, ok)
        \* a send inside the try: when it raises, the except clause sends
        inTry(text) ==
            IF ok1 THEN [sent |-> <<ChatReply(session_sender, text, TRUE)>>,
                         returned |-> TRUE]
            ELSE [sent |-> <<ChatReply(session_sender, text, FALSE), later(ok2)>>,
                  returned |-> ok2]
    IN  IF output.kind = "unknown"
        THEN [calls |-> <<>>, sent |-> <<ChatReply(session_sender, UNKNOWN_TEXT, ok1)>>,
              returned |-> ok1]
        ELSE IF output.kind = "invalid"
        THEN [calls |-> <<>>, sent |-> <<later(ok1)>>, returned |-> ok1]
        ELSE IF output.address = ""
        THEN [calls |-> <<>>, sent |-> inTry(NO_ADDRESS_TEXT).sent,
              returned |-> inTry(NO_ADDRESS_TEXT).returned]
        ELSE LET service == SolanaService(output.action)
                 text    == ResponseTextOf(service, fetched)
             IN  [calls |-> <<service>>, sent |-> inTry(text).sent,
                  returned |-> inTry(text).returned]

\* What the RPC endpoint does with the getBalance request.
RpcReplies ==
    {"connection error", "bad status", "invalid json",
     "invalid json raised as request error", "error object",
     "error without message", "no result", "result without value",
     "result null", "lamports", "lamports not a number"}

\* What a call of get_balance_from_address ends in: a returned text, which
\* is an error text or not, or an exception.
Balance(raised, error, text) == [raised |-> raised, error |-> error, text |-> text]

\* get_balance_from_address without its last except clause.
GetBalanceUncaught(rpc) ==
    CASE rpc \in {"connection error", "bad status",
                  "invalid json raised as request error"} ->
            Balance(FALSE, TRUE, "Request error")
      [] rpc = "invalid json" -> Balance(FALSE, TRUE, "JSON decode error")
      [] rpc = "error object" -> Balance(FALSE, TRUE, "Error: message")
      [] rpc \in {"no result", "result without value"} ->
            Balance(FALSE, TRUE, "No balance information found")
      [] rpc = "lamports" -> Balance(FALSE, FALSE, "SOL (lamports)")
      [] OTHER -> Balance(TRUE, TRUE, "Unexpected error")

\* get_balance_from_address(address)
get_balance_from_address(rpc) ==
    CASE rpc \in {"connection error", "bad status",
                  "invalid json raised as request error"} ->
            Balance(FALSE, TRUE, "Request error")
      [] rpc = "invalid json" -> Balance(FALSE, TRUE, "JSON decode error")
      [] rpc = "error object" -> Balance(FALSE, TRUE, "Error: message")
      [] rpc \in {"no result", "result without value"} ->
            Balance(FALSE, TRUE, "No balance information found")
      [] rpc = "lamports" -> Balance(FALSE, FALSE, "SOL (lamports)")
      [] OTHER -> Balance(FALSE, TRUE, "Unexpected error")

\* The try of handle_request and its except clause: the sends.
HandleRequestSends(from, balance, ok1, ok2) ==
    IF balance.raised
    THEN <<SolanaSend(from, "ErrorMessage", balance.text, <<>>, ok1)>>
    ELSE IF ok1
    THEN <<SolanaSend(from, "SolanaResponse", balance.text, <<>>, TRUE)>>
    ELSE <<SolanaSend(from, "SolanaResponse", balance.text, <<>>, FALSE),
           SolanaSend(from, "ErrorMessage", "send failed", <<>>, ok2)>>

IdleSolana ==
    /\ storage = [key \in Sessions |-> None]
    /\ last_chat_sender = [session \in Sessions |-> None]
    /\ participants = [session \in Sessions |-> {}]
    /\ solHandler = "none"
    /\ solSession = "s1"
    /\ solSender = "alice"
    /\ solMsg = NoChatMessage
    /\ solOutput = NoOutput
    /\ solRpc = "none"
    /\ solStored = None
    /\ solCalls = <<>>
    /\ solSent = <<>>
    /\ solReturned = TRUE
    /\ solSteps = 0

IdleFormat ==
    /\ amount = Number(0, 0)
    /\ formatted = None

IdleSentiment ==
    /\ samples = <<>>
    /\ texts = <<>>
    /\ sources = <<>>
    /\ sentimentPc = "idle"
    /\ sentiment_result = NoResult

IdleClassify ==
    /\ query = <<>>
    /\ sender = "alice"
    /\ advisorPc = "idle"
    /\ advisorSent = <<>>
    /\ token = None
    /\ extracted = FALSE

\* A run of analyze_sentiment starts with empty lists; a run of
\* analyze_insurance_sentiment with its five sample texts and one source.
InitSentiment ==
    /\ samples = <<>>
    /\ sentiment_result = NoResult
    /\ \/ /\ sentimentPc = "collect"
          /\ texts = <<>>
          /\ sources = <<>>
       \/ /\ sentimentPc = "insurance"
          /\ texts \in [1..InsuranceSampleCount -> InsuranceTexts]
          /\ sources = <<"Insurance News">>
    /\ IdleClassify
    /\ IdleChat
    /\ IdleHealth
    /\ IdleFormat
    /\ IdleNews
    /\ IdleSolana

\* One relevant item of a news response is met.
Collect(item) ==
    /\ sentimentPc = "collect"
    /\ Len(texts) < MaxTexts
    /\ LET next == CollectItem([texts |-> texts, sources |-> sources], item)
       IN  /\ texts' = next.texts
           /\ sources' = next.sources
    /\ samples' = Append(samples, item)
    /\ UNCHANGED <<sentimentPc, sentiment_result>>
    /\ UNCHANGED <<classifyVars, chatVars, healthVars, formatVars, newsVars, solanaVars>>

\* analyze_sentiment scores what it collected and returns.
Analyze ==
    /\ sentimentPc = "collect"
    /\ sentiment_result' = AnalyzeTexts(texts, sources)
    /\ sentimentPc' = "done"
    /\ UNCHANGED <<samples, texts, sources>>
    /\ UNCHANGED <<classifyVars, chatVars, healthVars, formatVars, newsVars, solanaVars>>

\* analyze_insurance_sentiment scores its texts and returns.
AnalyzeInsurance ==
    /\ sentimentPc = "insurance"
    /\ sentiment_result' = InsuranceAnalyzeTexts(texts, sources)
    /\ sentimentPc' = "insurance_done"
    /\ UNCHANGED <<samples, texts, sources>>
    /\ UNCHANGED <<classifyVars, chatVars, healthVars, formatVars, newsVars, solanaVars>>

NextSentiment ==
    \/ \E item \in NewsItems : Collect(item)
    \/ Analyze
    \/ AnalyzeInsurance

SpecSentiment == InitSentiment /\ [][NextSentiment]_vars

(***************************************************************************)
(* The messages the agents are given.  A text is a concatenation of at     *)
(* most MaxFrags fragments.                                                *)
(***************************************************************************)
MaxFrags == 2

Senders == {"alice", "bob"}

ClassifyFragments ==
    { <<"s", "t", "o", "c", "k">>, <<"S", "h", "a", "r", "e">>,
      <<"m", "a", "r", "k", "e", "t">>, <<"c", "r", "y", "p", "t", "o">>,
      <<"b", "i", "t", "c", "o", "i", "n">>, <<"S", "o", "l", "a", "n", "a">>,
      <<"h", "e", "a", "l", "t", "h">>, <<"s", "y", "m", "p", "t", "o", "m">>,
      <<"i", "n", "s", "u", "r", "a", "n", "c", "e">>,
      <<"b", "t", "c">>, <<"b", "t", "c", " ">>, <<"E", "T", "H">>,
      <<"e", "t", "h", "e", "r", "e", "u", "m">>,
      <<" ">>, <<"_">>, <<"x">> }

RECURSIVE TextsOf(_, _)
TextsOf(frags, n) ==
    IF n = 0 THEN {<<>>}
    ELSE LET shorter == TextsOf(frags, n - 1)
         IN  shorter \cup {t \o f : t \in shorter, f \in frags}

(***************************************************************************)
(* Classification: the advisor routes a message, and the token agent's     *)
(* extraction is applied to the same text.                                 *)
(***************************************************************************)
InitClassify ==
    /\ query \in TextsOf(ClassifyFragments, MaxFrags)
    /\ sender \in Senders
    /\ advisorPc = "pending"
    /\ advisorSent = <<>>
    /\ token = None
    /\ extracted = FALSE
    /\ IdleSentiment
    /\ IdleChat
    /\ IdleHealth
    /\ IdleFormat
    /\ IdleNews
    /\ IdleSolana

\* route_message(ctx, msg)
RouteMessage ==
    /\ advisorPc = "pending"
    /\ advisorSent' = RouteSends(query, sender)
    /\ advisorPc' = "handled"
    /\ UNCHANGED <<query, sender, token, extracted>>
    /\ UNCHANGED <<sentimentVars, chatVars, healthVars, formatVars, newsVars, solanaVars>>

\* token = extract_token_from_query(query)
ExtractToken ==
    /\ ~extracted
    /\ token' = extract_token_from_query(query)
    /\ extracted' = TRUE
    /\ UNCHANGED <<query, sender, advisorPc, advisorSent>>
    /\ UNCHANGED <<sentimentVars, chatVars, healthVars, formatVars, newsVars, solanaVars>>

NextClassify == RouteMessage \/ ExtractToken

SpecClassify == InitClassify /\ [][NextClassify]_vars

(***************************************************************************)
(* The chat handlers as processes.                                         *)
(***************************************************************************)
MaxChatFrags == 2

\* The most requests to the LLM endpoint one run is followed for.
MaxLlmRequests == 4

TokenChatFragments == { <<"E", "T", "H">>, <<" ">>, <<"x">> }

InsuranceChatFragments ==
    { <<"a", "e", "t", "n", "a">>, <<"d", "e", "n", "t", "a", "l">>, <<"x">> }

\* msg.content: no item, one text, or a text followed by another item.
ContentsOf(frags) ==
    LET ts == TextsOf(frags, MaxChatFrags)
    IN  {<<>>} \cup {<<t>> : t \in ts} \cup {<<t, <<"b", "t", "c">>>> : t \in ts}

\* What the price and market-data providers can answer.
PriceOutcomes == {ErrorData, Data(-3), Data(3)}

\* What the price provider can answer to get_crypto_price.
CoinGeckoReplies ==
    {Reply(kind, None) : kind \in RequestFailures \cup
                                  {"invalid json", "not a dict", "no market_data",
                                   "malformed market_data"}}
        \cup {Reply("market_data", change) : change \in {None, Some(-3), Some(3)}}

\* The runs of analyze_sentiment a handler can meet.
ChatSampleRuns ==
    { <<>>,
      <<Item(Text(<<>>, FALSE, 0), "CoinGecko Status")>>,
      <<Item(Text(<<"u", "p">>, FALSE, 15), "CoinGecko")>>,
      <<Item(Text(<<"d", "o", "w", "n">>, FALSE, -15), "NewsAPI")>> }

\* What VADER can make of the five sample texts of the insurance agent.
InsuranceSampleRuns ==
    {[i \in 1..InsuranceSampleCount |-> t] : t \in InsuranceTexts}

LlmOutcomes == {"text", "empty", "status", "timeout", "error"}

InitChat ==
    /\ chatAgent \in {"token", "insurance"}
    /\ chatSender \in Senders
    /\ content_list \in ContentsOf(IF chatAgent = "token" THEN TokenChatFragments
                              ELSE InsuranceChatFragments)
    /\ llmKey \in BOOLEAN
    /\ chatPc = "received"
    /\ token_symbol = None
    /\ query_info = NoQueryInfo
    /\ calls = NoCalls
    /\ price_data = NoData
    /\ sentiment_data = NoResult
    /\ retry_count = 0
    /\ analysis = None
    /\ waits = <<>>
    /\ llm_outcomes = <<>>
    /\ response = NoResponse
    /\ chatSent = <<>>
    /\ IdleClassify
    /\ IdleSentiment
    /\ IdleHealth
    /\ IdleFormat
    /\ IdleNews
    /\ IdleSolana

chatFrame ==
    <<classifyVars, sentimentVars, healthVars, formatVars, newsVars, solanaVars,
      chatAgent, chatSender, content_list, llmKey>>

\* handle_chat_message of the token agent without its `if not token_symbol`
\* branch: get_token_outlook is called whatever was found.
TokenHandleChatUnguarded(found, sends) ==
    /\ token_symbol' = found
    /\ chatSent' = chatSent
    /\ chatPc' = "price"
    /\ UNCHANGED <<query_info, calls, price_data, sentiment_data, retry_count,
                   analysis, waits, llm_outcomes, response>>

\* The token agent's handle_chat_message up to the call of get_token_outlook:
\* without a token it sends the clarification and returns.
TokenHandleChat(found, sends) ==
    /\ token_symbol' = found
    /\ IF found = None
       THEN /\ chatSent' = chatSent \o sends
            /\ chatPc' = "done"
       ELSE /\ chatSent' = chatSent
            /\ chatPc' = "price"
    /\ UNCHANGED <<query_info, calls, price_data, sentiment_data, retry_count,
                   analysis, waits, llm_outcomes, response>>

TokenReceive ==
    /\ chatAgent = "token"
    /\ chatPc = "received"
    /\ \E ok \in BOOLEAN :
          TokenHandleChat(extract_token_from_query(UserMessage(content_list)),
                          <<ChatSend(chatSender, Clarification("token"), "chat", ok)>>)
    /\ UNCHANGED chatFrame

\* get_token_outlook: price_data = await get_crypto_price(token_symbol)
PriceFetch ==
    /\ chatPc = "price"
    /\ \E reply \in CoinGeckoReplies :
          LET data == get_crypto_price(reply)
          IN
          /\ price_data' = data
          /\ IF data.error
             THEN /\ response' = PriceError(data)
                  /\ chatPc' = "send"
             ELSE /\ response' = response
                  /\ chatPc' = "sentiment"
    /\ calls' = Called(calls, "price")
    /\ UNCHANGED <<token_symbol, query_info, sentiment_data, retry_count,
                   analysis, waits, llm_outcomes, chatSent>>
    /\ UNCHANGED chatFrame

\* get_token_outlook: sentiment_data = await analyze_sentiment(token_symbol);
\* an error in the sentiment result is returned as an error text.  Without
\* ASI_LLM_KEY, or when preparing the call raises, the analysis is
\* fallback_analysis and the response is rendered.
SentimentCall ==
    /\ chatPc = "sentiment"
    /\ calls' = Called(calls, "sentiment")
    /\ \E ss \in ChatSampleRuns, raised \in BOOLEAN, prepared \in BOOLEAN :
          IF raised
          THEN /\ sentiment_data' = NoResult
               /\ response' = SentimentError(price_data)
               /\ chatPc' = "send"
               /\ UNCHANGED analysis
          ELSE /\ sentiment_data' = Aggregate(ss)
               /\ IF llmKey /\ prepared
                  THEN /\ chatPc' = "llm"
                       /\ UNCHANGED <<analysis, response>>
                  ELSE /\ analysis' = Some(fallback_analysis(price_data,
                                                             sentiment_data'))
                       /\ response' = TokenOutlook(price_data, sentiment_data')
                       /\ chatPc' = "send"
    /\ UNCHANGED <<token_symbol, query_info, price_data, retry_count, waits,
                   llm_outcomes, chatSent>>
    /\ UNCHANGED chatFrame

\* The retry loop with a sleep after every failed attempt.
LlmAttemptAlwaysWaits(state, outcome) ==
    LET failed  == state.retry_count + 1
        waiting == <<(IF outcome = "timeout" THEN 3 ELSE 2) * failed>>
    IN  CASE outcome = "text"  -> [state EXCEPT !.analysis = Some("llm analysis")]
          [] outcome = "empty" -> [state EXCEPT !.analysis = Some("")]
          [] OTHER -> [state EXCEPT !.retry_count = failed,
                                    !.waits = state.waits \o waiting]

\* The retry loop's state after one requests.post with the given outcome.
LlmAttempt(state, outcome) ==
    LET failed  == state.retry_count + 1
        waiting == IF failed < max_retries
                   THEN <<(IF outcome = "timeout" THEN 3 ELSE 2) * failed>>
                   ELSE <<>>
    IN  CASE outcome = "text"  -> [state EXCEPT !.analysis = Some("llm analysis")]
          [] outcome = "empty" -> [state EXCEPT !.analysis = Some("")]
          [] OTHER -> [state EXCEPT !.retry_count = failed,
                                    !.waits = state.waits \o waiting]

\* while retry_count < max_retries and not analysis
LlmLoopContinues(state) ==
    state.retry_count < max_retries /\ NotAnalysis(state.analysis)

\* One pass of the retry loop of get_token_outlook.
LlmRequest ==
    /\ chatPc = "llm"
    /\ LlmLoopContinues([retry_count |-> retry_count, analysis |-> analysis])
    /\ calls.llm < MaxLlmRequests
    /\ \E outcome \in LlmOutcomes :
          LET next == LlmAttempt([retry_count |-> retry_count,
                                  analysis |-> analysis, waits |-> waits], outcome)
          IN  /\ retry_count' = next.retry_count
              /\ analysis' = next.analysis
              /\ waits' = next.waits
              /\ llm_outcomes' = Append(llm_outcomes, outcome)
    /\ calls' = Called(calls, "llm")
    /\ UNCHANGED <<chatPc, token_symbol, query_info, price_data, sentiment_data,
                   response, chatSent>>
    /\ UNCHANGED chatFrame

\* The loop has ended: fallback_analysis if there is no analysis, and the
\* response is rendered.
LlmFinish ==
    /\ chatPc = "llm"
    /\ ~LlmLoopContinues([retry_count |-> retry_count, analysis |-> analysis])
    /\ analysis' = IF NotAnalysis(analysis)
                   THEN Some(fallback_analysis(price_data, sentiment_data))
                   ELSE analysis
    /\ response' = TokenOutlook(price_data, sentiment_data)
    /\ chatPc' = "send"
    /\ UNCHANGED <<token_symbol, query_info, calls, price_data, sentiment_data,
                   retry_count, waits, llm_outcomes, chatSent>>
    /\ UNCHANGED chatFrame

\* The insurance agent's handle_chat_message up to the call of
\* get_insurance_analysis: with neither a company nor an insurance type it
\* sends the clarification and returns.
InsuranceHandleChat(info, sends) ==
    /\ query_info' = info
    /\ IF info.company = None /\ info.insurance_type = None
       THEN /\ chatSent' = chatSent \o sends
            /\ chatPc' = "done"
       ELSE /\ chatSent' = chatSent
            /\ chatPc' = IF info.company # None
                            /\ info.company[1] \in INSURANCE_STOCK_SYMBOLS
                         THEN "market"
                         ELSE "insurance_sentiment"
    /\ UNCHANGED <<token_symbol, calls, price_data, sentiment_data, retry_count,
                   analysis, waits, llm_outcomes, response>>

InsuranceReceive ==
    /\ chatAgent = "insurance"
    /\ chatPc = "received"
    /\ \E ok \in BOOLEAN :
          InsuranceHandleChat(
              extract_insurance_info_from_query(UserMessage(content_list)),
              <<ChatSend(chatSender, Clarification("insurance"), "chat", ok)>>)
    /\ UNCHANGED chatFrame

\* get_insurance_analysis: market_data = await get_insurance_market_data(company)
MarketFetch ==
    /\ chatPc = "market"
    /\ \E data \in PriceOutcomes : price_data' = data
    /\ calls' = Called(calls, "market")
    /\ chatPc' = "insurance_sentiment"
    /\ UNCHANGED <<token_symbol, query_info, sentiment_data, retry_count,
                   analysis, waits, llm_outcomes, response, chatSent>>
    /\ UNCHANGED chatFrame

\* get_insurance_analysis: sentiment_data = await analyze_insurance_sentiment(...);
\* without ASI_LLM_KEY the fallback analysis is taken and the response
\* rendered.
InsuranceSentimentCall ==
    /\ chatPc = "insurance_sentiment"
    /\ \E ts \in InsuranceSampleRuns :
          sentiment_data' = InsuranceAnalyzeTexts(ts, <<"Insurance News">>)
    /\ calls' = Called(calls, "sentiment")
    /\ IF llmKey
       THEN /\ chatPc' = "insurance_llm"
            /\ UNCHANGED <<analysis, response>>
       ELSE /\ analysis' = Some(FALLBACK_ANALYSIS)
            /\ response' = InsuranceResponse(price_data, sentiment_data',
                                             Some(FALLBACK_ANALYSIS))
            /\ chatPc' = "send"
    /\ UNCHANGED <<token_symbol, query_info, price_data, retry_count, waits,
                   llm_outcomes, chatSent>>
    /\ UNCHANGED chatFrame

\* get_insurance_analysis: the one requests.post to the LLM endpoint.
InsuranceLlmRequest ==
    /\ chatPc = "insurance_llm"
    /\ \E outcome \in LlmOutcomes :
          LET text == CASE outcome = "text"  -> Some("llm analysis")
                        [] outcome = "empty" -> Some("")
                        [] OTHER -> Some(FALLBACK_ANALYSIS)
          IN  /\ analysis' = text
              /\ response' = InsuranceResponse(price_data, sentiment_data, text)
    /\ calls' = Called(calls, "llm")
    /\ chatPc' = "send"
    /\ UNCHANGED <<token_symbol, query_info, price_data, sentiment_data,
                   retry_count, waits, llm_outcomes, chatSent>>
    /\ UNCHANGED chatFrame

\* await ctx.send(sender, response_msg) in the try of either handler: when
\* it raises, the token agent tries the alternative format.
SendResponse ==
    /\ chatPc = "send"
    /\ \E ok \in BOOLEAN :
          /\ chatSent' = Append(chatSent, ChatSend(chatSender, response, "chat", ok))
          /\ chatPc' = IF ~ok /\ chatAgent = "token" THEN "alt_send" ELSE "done"
    /\ UNCHANGED <<token_symbol, query_info, calls, price_data, sentiment_data,
                   retry_count, analysis, waits, llm_outcomes, response>>
    /\ UNCHANGED chatFrame

\* await ctx.send(sender, {"message": response})
AltSend ==
    /\ chatPc = "alt_send"
    /\ \E ok \in BOOLEAN :
          chatSent' = Append(chatSent, ChatSend(chatSender, response, "alt", ok))
    /\ chatPc' = "done"
    /\ UNCHANGED <<token_symbol, query_info, calls, price_data, sentiment_data,
                   retry_count, analysis, waits, llm_outcomes, response>>
    /\ UNCHANGED chatFrame

NextChat ==
    \/ TokenReceive
    \/ PriceFetch
    \/ SentimentCall
    \/ LlmRequest
    \/ LlmFinish
    \/ InsuranceReceive
    \/ MarketFetch
    \/ InsuranceSentimentCall
    \/ InsuranceLlmRequest
    \/ SendResponse
    \/ AltSend

SpecChat == InitChat /\ [][NextChat]_vars

(***************************************************************************)
(* The health agents as processes.  Each handler is one step; the CLI's    *)
(* startup loop blocks the CLI agent's event loop while it is in input(),  *)
(* so the CLI's message handlers run only while the loop awaits.           *)
(***************************************************************************)
MaxInputs == 2

\* What the user types at the prompt.
HealthInputs ==
    << <<"p", "i", "l", "l", " ", "f", "o", "r", " ", "C", "h", "e", "s", "t", " ", "P", "a", "i", "n">>,
       <<"p", "i", "l", "l">>,
       <<"c", "o", "u", "g", "h">>,
       <<"1", "5", "0", "0", "0">>,
       <<" ", "e", "x", "i", "t">> >>

InitHealth ==
    /\ cliPc = "input"
    /\ inputs = 0
    /\ current = 0
    /\ network = {}
    /\ response_queue = <<>>
    /\ printed = <<>>
    /\ insurance_handled = FALSE
    /\ analysed = {}
    /\ IdleClassify
    /\ IdleSentiment
    /\ IdleChat
    /\ IdleFormat
    /\ IdleNews
    /\ IdleSolana

healthFrame == <<classifyVars, sentimentVars, chatVars, formatVars, newsVars, solanaVars>>

\* Messages of the given kind in flight to the given agent.
Inbox(agent, kind) == {msg \in network : msg.to = agent /\ msg.kind = kind}

\* startup: one pass of the loop from input() to the first await that
\* suspends it.
ReadInput ==
    /\ cliPc = "input"
    /\ ~insurance_handled
    /\ inputs < MaxInputs
    /\ inputs' = inputs + 1
    /\ \E typed \in DOMAIN HealthInputs :
          LET user_input == Strip(HealthInputs[typed])
          IN  IF Lower(user_input) \in {<<"e", "x", "i", "t">>, <<"q", "u", "i", "t">>}
              THEN /\ cliPc' = "ended"
                   /\ UNCHANGED <<current, network>>
              ELSE IF IsDigit(user_input)
              THEN /\ network' = network \cup
                          {Msg(INSURANCE_AGENT, CLI_AGENT_ADDRESS, "InsuranceQuery",
                               <<>>, ParseInt(user_input), inputs')}
                   /\ cliPc' = "sleeping"
                   /\ UNCHANGED current
              ELSE /\ network' = network \cup
                          {Msg(route_query(user_input), CLI_AGENT_ADDRESS, "Message",
                               user_input, 0, inputs')}
                   /\ cliPc' = "waiting"
                   /\ current' = inputs'
    /\ UNCHANGED <<response_queue, printed, insurance_handled, analysed>>
    /\ UNCHANGED healthFrame

\* startup: while not insurance_handled
LoopEnds ==
    /\ cliPc = "input"
    /\ insurance_handled
    /\ cliPc' = "ended"
    /\ UNCHANGED <<inputs, current, network, response_queue, printed,
                   insurance_handled, analysed>>
    /\ UNCHANGED healthFrame

\* startup: await asyncio.sleep(3); continue
WakeUp ==
    /\ cliPc = "sleeping"
    /\ cliPc' = "input"
    /\ UNCHANGED <<inputs, current, network, response_queue, printed,
                   insurance_handled, analysed>>
    /\ UNCHANGED healthFrame

\* startup: response_queue.get() returns and the response is printed.
PrintResponse ==
    /\ cliPc = "waiting"
    /\ response_queue # <<>>
    /\ printed' = Append(printed,
                         [query   |-> current,
                          item    |-> Head(response_queue),
                          serious |-> ContainsAny(Lower(Head(response_queue).response),
                                                  CLI_SERIOUS_KEYWORDS)])
    /\ response_queue' = Tail(response_queue)
    /\ cliPc' = "input"
    /\ UNCHANGED <<inputs, current, network, insurance_handled, analysed>>
    /\ UNCHANGED healthFrame

\* startup: asyncio.TimeoutError after 10 seconds without a response.
Timeout ==
    /\ cliPc = "waiting"
    /\ response_queue = <<>>
    /\ cliPc' = "input"
    /\ UNCHANGED <<inputs, current, network, response_queue, printed,
                   insurance_handled, analysed>>
    /\ UNCHANGED healthFrame

\* symptom_response of the CLI agent
symptom_response ==
    /\ cliPc \in {"waiting", "sleeping"}
    /\ \E msg \in Inbox(CLI_AGENT_ADDRESS, "SymptomResponse") :
          /\ response_queue' = Append(response_queue,
                                      [type |-> "symptom", sender |-> msg.from,
                                       response |-> msg.text, of |-> msg.of])
          /\ network' = network \ {msg}
    /\ UNCHANGED <<cliPc, inputs, current, printed, insurance_handled, analysed>>
    /\ UNCHANGED healthFrame

\* show_insurance of the CLI agent
show_insurance ==
    /\ cliPc \in {"waiting", "sleeping"}
    /\ \E msg \in Inbox(CLI_AGENT_ADDRESS, "InsuranceOptions") :
          network' = network \ {msg}
    /\ insurance_handled' = TRUE
    /\ UNCHANGED <<cliPc, inputs, current, response_queue, printed, analysed>>
    /\ UNCHANGED healthFrame

\* A handler that takes a message and sends others, and touches no other
\* state.
Handle(msg, sends) ==
    /\ network' = (network \ {msg}) \cup sends
    /\ UNCHANGED <<cliPc, inputs, current, response_queue, printed,
                   insurance_handled, analysed>>
    /\ UNCHANGED healthFrame

\* forward_to_asi of the collector
CollectorForwardToAsi ==
    \E msg \in Inbox(COLLECTOR_AGENT, "Message") :
        Handle(msg, {Msg(ASI_AGENT_ID, COLLECTOR_AGENT, "ASI1miniRequest",
                         CollectorPrompting(msg.text), 0, msg.of)})

\* forward_to_asi of the analyser
AnalyserForwardToAsi ==
    \E msg \in Inbox(ANALYSER_AGENT, "Message") :
        Handle(msg, {Msg(ASI_AGENT_ID, ANALYSER_AGENT, "ASI1miniRequest",
                         AnalyserPrompting(msg.text), 0, msg.of)})

\* handle_query of the ASI wrapper: the mocked response goes back to the
\* sender of the request.
handle_query ==
    \E msg \in Inbox(ASI_AGENT_ID, "ASI1miniRequest") :
        Handle(msg, {Msg(msg.from, ASI_AGENT_ID, "ASI1miniResponse",
                         MOCK_ASI_HEAD \o msg.text, 0, msg.of)})

\* handle_asi_response of the collector
handle_asi_response ==
    \E msg \in Inbox(COLLECTOR_AGENT, "ASI1miniResponse") :
        Handle(msg, {Msg(ANALYSER_AGENT, COLLECTOR_AGENT, "ASI1miniResponse",
                         msg.text, 0, msg.of)})

\* analyze_and_respond of the analyser: the summary goes to the CLI and to
\* the insurance agent.
analyze_and_respond ==
    \E msg \in Inbox(ANALYSER_AGENT, "ASI1miniResponse") :
        LET summary == ANALYZED_HEAD \o msg.text
        IN  Handle(msg, {Msg(CLI_AGENT_ADDRESS, ANALYSER_AGENT, "SymptomResponse",
                             summary, 0, msg.of),
                         Msg(INSURANCE_AGENT, ANALYSER_AGENT, "SymptomResponse",
                             summary, 0, msg.of)})

\* receive_analysis of the insurance agent
receive_analysis ==
    \E msg \in Inbox(INSURANCE_AGENT, "SymptomResponse") :
        LET sends == ReceiveAnalysisSends(msg)
        IN  /\ network' = (network \ {msg}) \cup {sends[i] : i \in DOMAIN sends}
            /\ analysed' = analysed \cup {[response |-> msg.text, of |-> msg.of, sends |-> sends]}
            /\ UNCHANGED <<cliPc, inputs, current, response_queue, printed,
                           insurance_handled>>
            /\ UNCHANGED healthFrame

\* suggest_insurance of the insurance agent
suggest_insurance ==
    \E msg \in Inbox(INSURANCE_AGENT, "InsuranceQuery") :
        Handle(msg, {Msg(CLI_AGENT_ADDRESS, INSURANCE_AGENT, "InsuranceOptions",
                         get_top_insurance_plans(msg.income), 0, msg.of)})

NextHealth ==
    \/ ReadInput
    \/ LoopEnds
    \/ WakeUp
    \/ PrintResponse
    \/ Timeout
    \/ symptom_response
    \/ show_insurance
    \/ CollectorForwardToAsi
    \/ AnalyserForwardToAsi
    \/ handle_query
    \/ handle_asi_response
    \/ analyze_and_respond
    \/ receive_analysis
    \/ suggest_insurance

SpecHealth == InitHealth /\ [][NextHealth]_vars

(***************************************************************************)
(* receive_analysis of the insurance agent on its own: one analysed        *)
(* response is in flight to it.                                            *)
(***************************************************************************)
AnalysedFragments ==
    { <<"C", "h", "e", "s", "t", " ">>,
      <<"P", "a", "i", "n">>,
      <<"E", "M", "E", "R", "G", "E", "N", "C", "Y">>,
      <<"S", "e", "r", "i", "o", "u", "s">>,
      <<"c", "r", "i", "t", "i", "c", "a", "l">>,
      <<"s", "h", "o", "r", "t", "n", "e", "s", "s", " ", "o", "f">>,
      <<" ", "b", "r", "e", "a", "t", "h">>,
      <<"l", "i", "f", "e", "-">>,
      <<"t", "h", "r", "e", "a", "t", "e", "n", "i", "n", "g">>,
      <<"x">> }

InitReceiveAnalysis ==
    /\ cliPc = "idle"
    /\ inputs = 0
    /\ current = 0
    /\ \E summary \in TextsOf(AnalysedFragments, MaxFrags) :
          network = {Msg(INSURANCE_AGENT, ANALYSER_AGENT, "SymptomResponse",
                         summary, 0, 1)}
    /\ response_queue = <<>>
    /\ printed = <<>>
    /\ insurance_handled = FALSE
    /\ analysed = {}
    /\ IdleClassify
    /\ IdleSentiment
    /\ IdleChat
    /\ IdleFormat
    /\ IdleNews
    /\ IdleSolana

NextReceiveAnalysis == receive_analysis

SpecReceiveAnalysis == InitReceiveAnalysis /\ [][NextReceiveAnalysis]_vars

(***************************************************************************)
(* The formatting functions applied to one number.                         *)
(***************************************************************************)
MaxExponent == 9

FormatMantissas == {0, 1, 15, 999, 3333, 9999, -1, -15, -999, -3333, -9999}

\* The numbers formatted: those whose rendering does not hang on a tie.
FormatNumbers ==
    {v \in {Number(m, e) : m \in FormatMantissas, e \in (-3)..MaxExponent} :
        /\ ~IsTie(v, 0, 2)
        /\ ~IsTie(v, 3, 1)
        /\ ~IsTie(v, 6, 2)
        /\ ~IsTie(v, 9, 2)}

InitFormat ==
    /\ amount \in FormatNumbers
    /\ formatted = None
    /\ IdleClassify
    /\ IdleSentiment
    /\ IdleChat
    /\ IdleHealth
    /\ IdleNews
    /\ IdleSolana

\* format_currency(value) and format_percent(value)
FormatNumber ==
    /\ formatted = None
    /\ formatted' = Some([currency |-> format_currency(amount),
                          percent  |-> format_percent(amount)])
    /\ UNCHANGED amount
    /\ UNCHANGED <<classifyVars, sentimentVars, chatVars, healthVars, newsVars, solanaVars>>

NextFormat == FormatNumber

SpecFormat == InitFormat /\ [][NextFormat]_vars

(***************************************************************************)
(* The insurance agent's handler up to what it makes of the query.         *)
(***************************************************************************)
InsuranceQueryFragments ==
    { <<"A", "f", "l", "a", "c">>,
      <<" ", "l", "i", "f", "e">>,
      <<"M", "e", "t", "L", "i", "f", "e">>,
      <<"p", "r", "u", "d", "e", "n", "t", "i", "a", "l">>,
      <<"M", "u", "t", "u", "a", "l">>,
      <<"m", "a", "s", "s">>,
      <<"B", "l", "u", "e">>,
      <<"k", "a", "i", "s", "e", "r">>,
      <<"n", "e", "w">>,
      <<"h", "e", "a", "l", "t", "h">>,
      <<" ">>,
      <<"x">> }

InitInsuranceQuery ==
    /\ chatAgent = "insurance"
    /\ chatSender \in Senders
    /\ \E text \in TextsOf(InsuranceQueryFragments, MaxFrags) : content_list = <<text>>
    /\ llmKey = FALSE
    /\ chatPc = "received"
    /\ token_symbol = None
    /\ query_info = NoQueryInfo
    /\ calls = NoCalls
    /\ price_data = NoData
    /\ sentiment_data = NoResult
    /\ retry_count = 0
    /\ analysis = None
    /\ waits = <<>>
    /\ llm_outcomes = <<>>
    /\ response = NoResponse
    /\ chatSent = <<>>
    /\ IdleClassify
    /\ IdleSentiment
    /\ IdleHealth
    /\ IdleFormat
    /\ IdleNews
    /\ IdleSolana

NextInsuranceQuery == InsuranceReceive

SpecInsuranceQuery == InitInsuranceQuery /\ [][NextInsuranceQuery]_vars

(***************************************************************************)
(* The collection of analyze_sentiment as a process: one step per          *)
(* requests.get, one per end of a loop.                                    *)
(***************************************************************************)
\* The most relevant items one source is given.
MaxNewsItems == 10

\* How a request of a news source can fail before any item is read.
NewsFailures == {"connection error", "timeout", "bad status", "invalid json"}

\* What a news source can answer.
NewsOutcomes ==
    {NewsOutcome(kind, 0) : kind \in NewsFailures}
        \cup {NewsOutcome("ok", items) : items \in {0, 1, 4, 5, MaxNewsItems}}
        \cup {NewsOutcome("raised", items) : items \in {1, 5}}

\* How many texts a market-data source can add (none when it fails).
MarketItemCounts == {0, 1, 3}

InitNews ==
    /\ newsPc = "news"
    /\ source_index = 1
    /\ market_index = 1
    /\ texts_count = 0
    /\ successful_sources = 0
    /\ requested = <<>>
    /\ news_outcomes = <<>>
    /\ IdleClassify
    /\ IdleSentiment
    /\ IdleChat
    /\ IdleHealth
    /\ IdleFormat
    /\ IdleSolana

newsFrame ==
    <<classifyVars, sentimentVars, chatVars, healthVars, formatVars, solanaVars>>

\* One pass of `for source_url in NEWS_SOURCES` that gets past the break.
NewsRequest ==
    /\ newsPc = "news"
    /\ source_index <= Len(NEWS_SOURCES)
    /\ ~EnoughNews(successful_sources, texts_count)
    /\ \E outcome \in NewsOutcomes :
          /\ texts_count' = texts_count + outcome.items
          /\ successful_sources' =
                IF outcome.kind = "ok" /\ outcome.items > 0
                THEN successful_sources + 1
                ELSE successful_sources
          /\ news_outcomes' = Append(news_outcomes, outcome)
    /\ requested' = Append(requested, NEWS_SOURCES[source_index])
    /\ source_index' = source_index + 1
    /\ UNCHANGED <<newsPc, market_index>>
    /\ UNCHANGED newsFrame

\* The loop over NEWS_SOURCES ends, by exhaustion or by the break, and
\* `if len(texts) < 5` is decided.
NewsLoopEnds ==
    /\ newsPc = "news"
    /\ \/ source_index > Len(NEWS_SOURCES)
       \/ EnoughNews(successful_sources, texts_count)
    /\ newsPc' = IF NeedsMarketData(texts_count) THEN "market" ELSE "analyze"
    /\ UNCHANGED <<source_index, market_index, texts_count, successful_sources,
                   requested, news_outcomes>>
    /\ UNCHANGED newsFrame

\* One pass of `for source_generator in MARKET_DATA_SOURCES`.
MarketRequest ==
    /\ newsPc = "market"
    /\ market_index <= Len(MARKET_DATA_SOURCES)
    /\ \E items \in MarketItemCounts : texts_count' = texts_count + items
    /\ requested' = Append(requested, MARKET_DATA_SOURCES[market_index])
    /\ market_index' = market_index + 1
    /\ UNCHANGED <<newsPc, source_index, successful_sources, news_outcomes>>
    /\ UNCHANGED newsFrame

MarketLoopEnds ==
    /\ newsPc = "market"
    /\ market_index > Len(MARKET_DATA_SOURCES)
    /\ newsPc' = "analyze"
    /\ UNCHANGED <<source_index, market_index, texts_count, successful_sources,
                   requested, news_outcomes>>
    /\ UNCHANGED newsFrame

NextNews ==
    \/ NewsRequest
    \/ NewsLoopEnds
    \/ MarketRequest
    \/ MarketLoopEnds

SpecNews == InitNews /\ [][NextNews]_vars

(***************************************************************************)
(* The Solana wallet agent as a process: the agent runs one handler at a   *)
(* time, so each handler is one step.                                      *)
(***************************************************************************)
\* The most handlers that run.
MaxSolanaSteps == 3

ContentItems ==
    {ContentItem("start-session", ""), ContentItem("text", "balance of A"),
     ContentItem("text", "tokens of B"), ContentItem("end-session", "")}

\* The ChatMessages of the interleaved sessions.
SessionMessages ==
    {ChatMessage(msg_id, content) :
        msg_id \in {"m1", "m2"},
        content \in {<<>>,
                     <<ContentItem("text", "balance of A")>>,
                     <<ContentItem("start-session", ""),
                       ContentItem("text", "tokens of B"),
                       ContentItem("end-session", "")>>}}

\* The action strings the AI agent can give.
SolanaActions ==
    { <<"T", "o", "k", "e", "n", " ", "T", "r", "a", "n", "s", "a", "c", "t", "i", "o", "n", "s">>,
      <<"t", "o", "k", "e", "n", "s">>,
      <<"A", "c", "c", "o", "u", "n", "t">>,
      <<"i", "n", "f", "o">>,
      <<"H", "i", "s", "t", "o", "r", "y">>,
      <<"r", "e", "c", "e", "n", "t">>,
      <<"b", "a", "l", "a", "n", "c", "e">>,
      <<>> }

Outputs ==
    {Output("unknown", "", <<>>), Output("invalid", "", <<>>)}
        \cup {Output("parsed", address, action) :
                 address \in {"", "A"}, action \in SolanaActions}

InitSolana ==
    /\ IdleSolana
    /\ IdleClassify
    /\ IdleSentiment
    /\ IdleChat
    /\ IdleHealth
    /\ IdleFormat
    /\ IdleNews

solanaFrame ==
    <<classifyVars, sentimentVars, chatVars, healthVars, formatVars, newsVars>>

\* handle_message(ctx, sender, msg) for one message.
HandleMessage(session, from, msg) ==
    /\ LET planned == HandleMessageSends(from, msg)
       IN  \E failAt \in 0..Len(planned) :
              /\ solSent' = SendsUntilRaise(planned, failAt)
              /\ solReturned' = (failAt = 0)
    /\ storage' = [storage EXCEPT ![StorageKey(session)] = Some(from)]
    /\ last_chat_sender' = [last_chat_sender EXCEPT ![session] = Some(from)]
    /\ participants' = [participants EXCEPT ![session] = @ \cup {from}]
    /\ solSession' = session
    /\ solSender' = from
    /\ solMsg' = msg
    /\ solHandler' = "handle_message"
    /\ solOutput' = NoOutput
    /\ solRpc' = "none"
    /\ solStored' = None
    /\ solCalls' = <<>>
    /\ solSteps' = solSteps + 1
    /\ UNCHANGED solanaFrame

\* handle_message for a ChatMessage of some sender in some session.
handle_message ==
    /\ solSteps < MaxSolanaSteps
    /\ \E session \in Sessions, from \in Senders, msg \in SessionMessages :
          HandleMessage(session, from, msg)

\* handle_structured_output_response(ctx, sender, msg)
handle_structured_output_response ==
    /\ solSteps < MaxSolanaSteps
    /\ \E session \in Sessions, output \in Outputs, fetched \in {"value", "error"},
          ok1 \in BOOLEAN, ok2 \in BOOLEAN :
          LET session_sender == storage[StorageKey(session)]
          IN  /\ solSession' = session
              /\ solOutput' = output
              /\ solStored' = session_sender
              /\ IF session_sender = None
                 THEN /\ solCalls' = <<>>
                      /\ solSent' = <<>>
                      /\ solReturned' = TRUE
                 ELSE LET run == StructuredOutputRun(session_sender[1], output,
                                                     fetched, ok1, ok2)
                      IN  /\ solCalls' = run.calls
                          /\ solSent' = run.sent
                          /\ solReturned' = run.returned
    /\ solHandler' = "handle_structured_output_response"
    /\ solSender' = AI_AGENT_ADDRESS
    /\ solMsg' = NoChatMessage
    /\ solRpc' = "none"
    /\ solSteps' = solSteps + 1
    /\ UNCHANGED <<storage, last_chat_sender, participants>>
    /\ UNCHANGED solanaFrame

\* handle_request(ctx, sender, msg) of the wallet protocol
handle_request ==
    /\ solSteps < MaxSolanaSteps
    /\ \E from \in Senders, rpc \in RpcReplies, ok1 \in BOOLEAN, ok2 \in BOOLEAN :
          LET balance == get_balance_from_address(rpc)
          IN  /\ solSender' = from
              /\ solRpc' = rpc
              /\ solCalls' = <<"get_balance_from_address">>
              /\ solSent' = HandleRequestSends(from, balance, ok1, ok2)
              /\ solReturned' = (ok1 \/ (~balance.raised /\ ok2))
    /\ solHandler' = "handle_request"
    /\ solMsg' = NoChatMessage
    /\ solOutput' = NoOutput
    /\ solStored' = None
    /\ solSteps' = solSteps + 1
    /\ UNCHANGED <<storage, last_chat_sender, participants, solSession>>
    /\ UNCHANGED solanaFrame

NextSolana ==
    \/ handle_message
    \/ handle_structured_output_response
    \/ handle_request

SpecSolana == InitSolana /\ [][NextSolana]_vars

(***************************************************************************)
(* handle_message on one ChatMessage of any content.                       *)
(***************************************************************************)
\* The most items in the content of a ChatMessage.
MaxContentItems == 3

ChatMessages ==
    {ChatMessage(msg_id, SubSeq(content, 1, Len(content))) :
        msg_id \in {"m1", "m2"},
        content \in UNION {[1..n -> ContentItems] : n \in 0..MaxContentItems}}

\* The message is delivered and not yet handled.
InitHandleMessage ==
    /\ storage = [key \in Sessions |-> None]
    /\ last_chat_sender = [session \in Sessions |-> None]
    /\ participants = [session \in Sessions |-> {}]
    /\ solHandler = "none"
    /\ solSession \in Sessions
    /\ solSender \in Senders
    /\ solMsg \in ChatMessages
    /\ solOutput = NoOutput
    /\ solRpc = "none"
    /\ solStored = None
    /\ solCalls = <<>>
    /\ solSent = <<>>
    /\ solReturned = TRUE
    /\ solSteps = 0
    /\ IdleClassify
    /\ IdleSentiment
    /\ IdleChat
    /\ IdleHealth
    /\ IdleFormat
    /\ IdleNews

HandleDelivered ==
    /\ solHandler = "none"
    /\ HandleMessage(solSession, solSender, solMsg)

NextHandleMessage == HandleDelivered

SpecHandleMessage == InitHandleMessage /\ [][NextHandleMessage]_vars

(***************************************************************************)
(* Claims about classification.                                            *)
(***************************************************************************)
HasStockKeyword ==
    \E k \in DOMAIN STOCK_KEYWORDS : Contains(Lower(query), STOCK_KEYWORDS[k])

HasCryptoKeyword ==
    \E k \in DOMAIN CRYPTO_KEYWORDS : Contains(Lower(query), CRYPTO_KEYWORDS[k])

HasHealthKeyword ==
    \E k \in DOMAIN HEALTH_KEYWORDS : Contains(Lower(query), HEALTH_KEYWORDS[k])

Recipients == {advisorSent[i].to : i \in DOMAIN advisorSent}

ForwardsOriginal == \A i \in DOMAIN advisorSent : advisorSent[i].content = query

\* C1: route_message tests the lower-cased text against the stock, crypto
\* and health keyword sets in that order; the first domain with a match wins
\* and the original message is forwarded to that domain's agents only (so a
\* text with a stock and a crypto keyword goes to the stock agents only).
C1_RoutePriority ==
    advisorPc = "handled" =>
        /\ HasStockKeyword =>
              /\ Recipients = {ANALYST_ADDRESS, NEWS_ADDRESS}
              /\ ForwardsOriginal
        /\ (~HasStockKeyword /\ HasCryptoKeyword) =>
              /\ Recipients = {CRYPTO_ADDRESS, SOLANA_ADDRESS}
              /\ ForwardsOriginal
        /\ (~HasStockKeyword /\ ~HasCryptoKeyword /\ HasHealthKeyword) =>
              /\ Recipients = {HEALTH_ADDRESS}
              /\ ForwardsOriginal

\* A message with a stock and a crypto keyword has been routed to the stock
\* agents.
C1_Witness ==
    /\ advisorPc = "handled"
    /\ HasStockKeyword
    /\ HasCryptoKeyword
    /\ Recipients = {ANALYST_ADDRESS, NEWS_ADDRESS}

IsBlank(s) == \A i \in DOMAIN s : s[i] \in WhitespaceChars

SentUnknownReply == advisorSent = <<Send(sender, UNKNOWN_REPLY)>>

DomainAgents ==
    {ANALYST_ADDRESS, NEWS_ADDRESS, CRYPTO_ADDRESS, SOLANA_ADDRESS, HEALTH_ADDRESS}

\* C2: route_message sends the "couldn't understand" reply to the original
\* sender, and nothing to a domain agent, if and only if the lower-cased text
\* contains none of the nine keywords; empty and whitespace-only text takes
\* that branch, and extract_token_from_query returns None for it.
C2_UnknownIffNoKeyword ==
    /\ advisorPc = "handled" =>
          /\ SentUnknownReply <=>
                ~(HasStockKeyword \/ HasCryptoKeyword \/ HasHealthKeyword)
          /\ SentUnknownReply \/ Recipients \subseteq DomainAgents
          /\ SentUnknownReply \/ ForwardsOriginal
          /\ IsBlank(query) => SentUnknownReply
    /\ (extracted /\ IsBlank(query)) => token = None

\* A whitespace-only message has been answered by the unknown reply and
\* yields no token.
C2_Witness ==
    /\ advisorPc = "handled"
    /\ extracted
    /\ query # <<>>
    /\ IsBlank(query)
    /\ SentUnknownReply
    /\ token = None

\* The entries of TOKEN_ID_MAP whose symbol stands in the lower-cased text as
\* a word of its own.
StandaloneSymbols ==
    {i \in DOMAIN TOKEN_ID_MAP : SearchWord(Lower(query), TOKEN_ID_MAP[i].symbol)}

\* The entries of TOKEN_ID_MAP whose full name is a substring of the
\* lower-cased text.
NamedTokens ==
    {i \in DOMAIN TOKEN_ID_MAP : Contains(Lower(query), TOKEN_ID_MAP[i].name)}

\* The 3-5 letter words of the lower-cased text that are known symbols.
SymbolLikeWords ==
    {w \in Range(FindAllSymbolLike(Lower(query), 0)) : w \in TokenSymbols}

First(S) == CHOOSE i \in S : \A j \in S : i <= j

\* C3: extract_token_from_query tries (a) a known symbol as a word of its
\* own, (b) a known full name as a substring, (c) a 3-5 letter word that is a
\* known symbol; the first strategy that succeeds gives the result (the first
\* entry of TOKEN_ID_MAP that matches), and None is returned only if all fail.
C3_ExtractionOrder ==
    extracted =>
        IF StandaloneSymbols # {}
        THEN token = Some(TOKEN_ID_MAP[First(StandaloneSymbols)].symbol)
        ELSE IF NamedTokens # {}
        THEN token = Some(TOKEN_ID_MAP[First(NamedTokens)].symbol)
        ELSE IF SymbolLikeWords # {}
        THEN \E w \in SymbolLikeWords : token = Some(w)
        ELSE token = None

\* A text with a standalone symbol and another token's full name has yielded
\* the standalone symbol.
C3_Witness ==
    /\ extracted
    /\ StandaloneSymbols # {}
    /\ NamedTokens \ StandaloneSymbols # {}
    /\ token = Some(TOKEN_ID_MAP[First(StandaloneSymbols)].symbol)

\* A text with a full name and no standalone symbol has yielded the name's
\* symbol.
C3_NameOnlyReached ==
    /\ extracted
    /\ StandaloneSymbols = {}
    /\ NamedTokens # {}
    /\ token = Some(<<"b", "t", "c">>)

(***************************************************************************)
(* Claims about the sentiment aggregation.                                 *)
(***************************************************************************)
TokenDone == sentimentPc = "done"

AnyDone == sentimentPc \in {"done", "insurance_done"}

\* The collected texts that are scored: in the token agent the non-blank
\* texts whose scoring does not raise, in the insurance agent (which has no
\* test for blank texts) the texts whose scoring does not raise.
ScoredTexts ==
    {i \in DOMAIN texts :
        /\ ~texts[i].raises
        /\ sentimentPc = "done" => ~IsBlank(texts[i].body)}

\* C4: analyze_sentiment returns the same canonical empty result (score 0,
\* category neutral, sample_size 0, sources ["No data"]) when no text was
\* collected and when texts were collected but none could be scored.
C4_CanonicalEmptyResult ==
    (TokenDone /\ ScoredTexts = {}) =>
        /\ sentiment_result.sentiment_score.num = 0
        /\ sentiment_result.sentiment_category = "neutral"
        /\ sentiment_result.sample_size = 0
        /\ sentiment_result.sources = <<"No data">>

\* C5: sample_size is the number of collected texts that are non-blank and
\* were scored without error; the others are skipped without ending the
\* scoring, so 0 <= sample_size <= number of collected texts.
C5_SampleSizeCountsScored ==
    TokenDone =>
        /\ sentiment_result.sample_size = Cardinality(ScoredTexts)
        /\ sentiment_result.sample_size >= 0
        /\ sentiment_result.sample_size <= Len(texts)

\* A text whose scoring raises was followed by a text that was scored, and
\* some but not all texts count.
C5_Witness ==
    /\ TokenDone
    /\ \E i, j \in DOMAIN texts :
          i < j /\ texts[i].raises /\ j \in ScoredTexts
    /\ \E i \in DOMAIN texts : IsBlank(texts[i].body)
    /\ sentiment_result.sample_size = Cardinality(ScoredTexts)
    /\ sentiment_result.sample_size < Len(texts)

\* The five bands over a score num/den given in hundredths.
BandsOf(f) ==
    { b \in {"very positive", "positive", "neutral", "negative", "very negative"} :
        \/ b = "very positive" /\ f.num >= 15 * f.den
        \/ b = "positive"      /\ f.num >= 5 * f.den /\ f.num < 15 * f.den
        \/ b = "neutral"       /\ f.num > -5 * f.den /\ f.num < 5 * f.den
        \/ b = "negative"      /\ f.num > -15 * f.den /\ f.num <= -5 * f.den
        \/ b = "very negative" /\ f.num <= -15 * f.den }

\* C6: the category is the one band of the five (very positive >= 0.15,
\* positive [0.05, 0.15), neutral (-0.05, 0.05), negative (-0.15, -0.05],
\* very negative <= -0.15) that holds the score; every score is in exactly
\* one band, and both agents give the same category to the same score.
C6_FiveBands ==
    AnyDone =>
        /\ BandsOf(sentiment_result.sentiment_score)
               = {sentiment_result.sentiment_category}
        /\ Categorize(sentiment_result.sentiment_score)
               = InsuranceCategorize(sentiment_result.sentiment_score)

\* The score is exactly -0.05 and the category is negative.
C6_Witness ==
    /\ TokenDone
    /\ sentiment_result.sample_size > 0
    /\ sentiment_result.sentiment_score.num * 100
           = -5 * sentiment_result.sentiment_score.den * 100
    /\ sentiment_result.sentiment_category = "negative"

\* The scores exactly 0.15, 0.05 and -0.15 are reached with the categories
\* very positive, positive and very negative.
C6_BoundariesReached(n, category) ==
    /\ AnyDone
    /\ sentiment_result.sample_size > 0
    /\ sentiment_result.sentiment_score.num = n * sentiment_result.sentiment_score.den
    /\ sentiment_result.sentiment_category = category

RECURSIVE SumOfCompounds(_)
SumOfCompounds(S) ==
    IF S = {} THEN 0
    ELSE LET i == CHOOSE x \in S : TRUE
         IN  texts[i].compound + SumOfCompounds(S \ {i})

SwapAdjacent(ss, i) ==
    [k \in DOMAIN ss |-> IF k = i THEN ss[i + 1] ELSE IF k = i + 1 THEN ss[i] ELSE ss[k]]

SameScore(r1, r2) ==
    /\ r1.sentiment_score.num * r2.sentiment_score.den
           = r2.sentiment_score.num * r1.sentiment_score.den
    /\ r1.sentiment_category = r2.sentiment_category
    /\ r1.sample_size = r2.sample_size

SourceLabels == {samples[i].source : i \in DOMAIN samples}

FirstSeen(label) ==
    CHOOSE i \in DOMAIN samples :
        /\ samples[i].source = label
        /\ \A j \in 1..(i - 1) : samples[j].source # label

\* C9: with at least one scored sample, sources holds each label at most
\* once, in the order in which the labels were first seen, and at most 5 of
\* them: the labels first seen earliest.
C9_SourcesDistinctOrderedCapped ==
    (TokenDone /\ sentiment_result.sample_size > 0) =>
        LET srcs == sentiment_result.sources
        IN  /\ \A i, j \in DOMAIN srcs : i # j => srcs[i] # srcs[j]
            /\ Len(srcs) <= 5
            /\ Range(srcs) \subseteq SourceLabels
            /\ \A i, j \in DOMAIN srcs :
                   i < j => FirstSeen(srcs[i]) < FirstSeen(srcs[j])
            /\ \A label \in SourceLabels \ Range(srcs) :
                   /\ Len(srcs) = 5
                   /\ \A i \in DOMAIN srcs : FirstSeen(srcs[i]) < FirstSeen(label)

\* Six labels were seen and sources holds the first five.
C9_Witness ==
    /\ TokenDone
    /\ sentiment_result.sample_size > 0
    /\ Cardinality(SourceLabels) > 5
    /\ Len(sentiment_result.sources) = 5

\* A label seen twice is listed once.
C9_DuplicateReached ==
    /\ TokenDone
    /\ sentiment_result.sample_size > 0
    /\ Cardinality(SourceLabels) < Len(samples)
    /\ Len(sentiment_result.sources) = Cardinality(SourceLabels)
    /\ Len(sentiment_result.sources) > 1

(***************************************************************************)
(* Claims about the chat handlers.                                         *)
(***************************************************************************)
\* The handler has passed its test of what was extracted.
ChatHandled == chatPc \notin {"idle", "received"}

\* Nothing to analyse is found in the message: no token for the token
\* agent, neither a company nor an insurance type for the insurance agent.
NoEntity ==
    IF chatAgent = "token"
    THEN extract_token_from_query(UserMessage(content_list)) = None
    ELSE LET info == extract_insurance_info_from_query(UserMessage(content_list))
         IN  info.company = None /\ info.insurance_type = None

\* What get_token_outlook and get_insurance_analysis return.
AnalysisResponses ==
    {"token outlook", "price error", "sentiment error", "insurance analysis"}

\* C10: when no entity is extracted from a chat message, handle_chat_message
\* makes exactly one send, of the fixed clarification text to the sender,
\* and no price, sentiment, market-data or LLM fetch, and it is finished;
\* when an entity is extracted, every send is of the analysis response to
\* the sender, never of the clarification, and a finished handler has made
\* at least one.
C10_ClarificationWhenNoEntity ==
    ChatHandled =>
        IF NoEntity
        THEN /\ chatPc = "done"
             /\ Len(chatSent) = 1
             /\ chatSent[1].to = chatSender
             /\ chatSent[1].text = Clarification(chatAgent)
             /\ chatSent[1].format = "chat"
             /\ calls = NoCalls
        ELSE /\ \A i \in DOMAIN chatSent :
                   /\ chatSent[i].to = chatSender
                   /\ chatSent[i].text = response
                   /\ chatSent[i].text.kind \in AnalysisResponses
             /\ chatPc = "done" => chatSent # <<>>

\* The token agent has answered a message that holds text but no token.
C10_Witness ==
    /\ chatAgent = "token"
    /\ chatPc = "done"
    /\ content_list # <<>>
    /\ UserMessage(content_list) # <<>>
    /\ NoEntity
    /\ chatSent = <<ChatSend(chatSender, Clarification("token"), "chat", TRUE)>>
    /\ calls = NoCalls

\* The insurance agent has answered a message that holds neither a company
\* nor an insurance type.
C10_InsuranceClarificationReached ==
    /\ chatAgent = "insurance"
    /\ chatPc = "done"
    /\ UserMessage(content_list) # <<>>
    /\ NoEntity
    /\ chatSent = <<ChatSend(chatSender, Clarification("insurance"), "chat", TRUE)>>
    /\ calls = NoCalls

\* Either agent has sent its analysis of an entity it found.
C10_AnalysisSentReached(agent) ==
    /\ chatAgent = agent
    /\ chatPc = "done"
    /\ ~NoEntity
    /\ chatSent # <<>>
    /\ chatSent[Len(chatSent)].ok
    /\ chatSent[Len(chatSent)].text.kind \in {"token outlook", "insurance analysis"}

C10_TokenAnalysisReached == C10_AnalysisSentReached("token")

C10_InsuranceAnalysisReached == C10_AnalysisSentReached("insurance")

(***************************************************************************)
(* Claims about the health agents.                                         *)
(***************************************************************************)
\* The prompt receive_analysis sends for a response that descends from the
\* given input.
InsurancePrompt(of) ==
    Msg(CLI_AGENT_ADDRESS, INSURANCE_AGENT, "SymptomResponse", INSURANCE_PROMPT, 0, of)

\* The lower-cased response contains a keyword of the serious-keyword list.
IsSerious(text) ==
    \E k \in DOMAIN serious_keywords : Contains(Lower(text), serious_keywords[k])

\* C11: for every analysed response it handles, receive_analysis sends the
\* insurance prompt to the CLI agent, once, if the lower-cased response
\* contains a keyword of the serious-keyword list, and sends nothing
\* otherwise; "chest pain" is one of the keywords.
C11_PromptIffSerious ==
    /\ \E k \in DOMAIN serious_keywords :
          serious_keywords[k] = <<"c", "h", "e", "s", "t", " ", "p", "a", "i", "n">>
    /\ \A a \in analysed :
          a.sends = IF IsSerious(a.response) THEN <<InsurancePrompt(a.of)>> ELSE <<>>
    /\ \A msg \in network :
          msg.from = INSURANCE_AGENT /\ msg.kind = "SymptomResponse"
              => \E a \in analysed : IsSerious(a.response) /\ msg = InsurancePrompt(a.of)

\* A response whose only keyword is "chest pain", in capitals, has been
\* handled and the prompt is on its way to the CLI agent.
C11_Witness ==
    \E a \in analysed :
        /\ a.response = <<"C", "h", "e", "s", "t", " ", "P", "a", "i", "n">>
        /\ a.sends = <<InsurancePrompt(a.of)>>
        /\ InsurancePrompt(a.of) \in network

\* A response without a keyword has been handled and nothing was sent.
C11_NothingSentReached ==
    \E a \in analysed :
        /\ a.response # <<>>
        /\ ~IsSerious(a.response)
        /\ a.sends = <<>>
        /\ network = {}

\* C12: every response the startup loop prints was produced for the query
\* the loop sent last, never for an earlier one.
C12_NoResponseOutlivesItsRequest ==
    \A i \in DOMAIN printed : printed[i].item.of = printed[i].query

\* The loop has printed, for its second query, a response produced for
\* that query.
C12_FreshResponseReached ==
    \E i \in DOMAIN printed : printed[i].query = 2 /\ printed[i].item.of = 2

\* The insurance agent's prompt for one query is printed as the response
\* to a later query.
C12_StalePromptReached ==
    \E i \in DOMAIN printed :
        /\ printed[i].item.of < printed[i].query
        /\ printed[i].item.sender = INSURANCE_AGENT

\* A response that arrived after the timeout of its query is printed as
\* the response to a later query.
C12_StaleAfterTimeoutReached ==
    \E i \in DOMAIN printed :
        /\ printed[i].item.of < printed[i].query
        /\ printed[i].item.sender = ANALYSER_AGENT
        /\ \A j \in DOMAIN printed : printed[j].query # printed[i].item.of

(***************************************************************************)
(* Claims about get_token_outlook.                                         *)
(***************************************************************************)
\* The price provider fails: a network error, a bad status, a body that is
\* no JSON, or a payload without market_data.
ProviderFails(reply) ==
    reply.kind \in {"connection error", "timeout", "bad status", "invalid json",
                    "no market_data"}

\* C13: when the price provider fails, get_crypto_price returns the default
\* facts with an 'error' entry, and get_token_outlook returns the
\* 'Error: ...' text without a sentiment analysis or a request to the LLM.
C13_PriceFailureIsErrorText ==
    /\ \A reply \in CoinGeckoReplies :
          ProviderFails(reply) =>
              /\ get_crypto_price(reply).present
              /\ get_crypto_price(reply).error
              /\ get_crypto_price(reply).change = 0
    /\ chatAgent = "token" /\ price_data.error =>
          /\ chatPc \in {"send", "alt_send", "done"}
          /\ response = PriceError(price_data)
          /\ calls = Called(NoCalls, "price")
          /\ analysis = None

\* The provider has answered with a body that is no JSON and the handler
\* has sent the error text.
C13_Witness ==
    /\ chatAgent = "token"
    /\ chatPc = "done"
    /\ price_data = PriceFailure("Invalid JSON response from API")
    /\ calls = Called(NoCalls, "price")
    /\ chatSent = <<ChatSend(chatSender, PriceError(price_data), "chat", TRUE)>>

(***************************************************************************)
(* Claims about the formatting of numbers.                                 *)
(***************************************************************************)
Last(s) == s[Len(s)]

\* The suffix the thresholds ask for, "" for none.
ExpectedSuffix(v) ==
    IF AtLeastPow10(v, 9) THEN "B"
    ELSE IF AtLeastPow10(v, 6) THEN "M"
    ELSE IF AtLeastPow10(v, 3) THEN "K"
    ELSE ""

\* C14: format_currency ends its result with B from 10^9, with M from 10^6
\* below 10^9, with K from 10^3 below 10^6 and with a digit below 10^3;
\* format_percent starts its result with '+' exactly for a strictly positive
\* value; both give a result for every number, and for 0 and negative
\* values one without a suffix and without '+'.
C14_SuffixesAndPlusSign ==
    formatted # None =>
        LET currency == formatted[1].currency
            percent  == formatted[1].percent
        IN  /\ Head(currency) = "$"
            /\ Last(currency) \in DigitChars \cup {"B", "M", "K"}
            /\ (IF Last(currency) \in DigitChars THEN "" ELSE Last(currency))
                   = ExpectedSuffix(amount)
            /\ Last(percent) = "%"
            /\ (Head(percent) = "+") = (amount.m > 0)
            /\ amount.m <= 0 =>
                   /\ Last(currency) \in DigitChars
                   /\ \A i \in DOMAIN percent : percent[i] # "+"
                   /\ \A i \in DOMAIN currency : currency[i] # "+"

\* format_currency(1_500_000_000) == "$1.50B"
C14_Witness ==
    /\ amount = Number(15, 8)
    /\ formatted # None
    /\ formatted[1].currency = <<"$", "1", ".", "5", "0", "B">>
    /\ Head(formatted[1].percent) = "+"

\* format_currency(999) == "$999.00"
C14_NoSuffixReached ==
    /\ amount = Number(999, 0)
    /\ formatted # None
    /\ formatted[1].currency = <<"$", "9", "9", "9", ".", "0", "0">>

\* format_percent(-3.333) == "-3.33%"
C14_NegativePercentReached ==
    /\ amount = Number(-3333, -3)
    /\ formatted # None
    /\ formatted[1].percent = <<"-", "3", ".", "3", "3", "%">>

\* format_currency(1000) == "$1.0K" and format_percent(0) == "0.00%"
C14_ThresholdReached ==
    /\ amount = Number(1, 3)
    /\ formatted # None
    /\ formatted[1].currency = <<"$", "1", ".", "0", "K">>

C14_ZeroReached ==
    /\ amount = Number(0, 0)
    /\ formatted # None
    /\ formatted[1].currency = <<"$", "0", ".", "0", "0">>
    /\ formatted[1].percent = <<"0", ".", "0", "0", "%">>

(***************************************************************************)
(* Claims about the insurance agent's reading of a query.                  *)
(***************************************************************************)
\* name[i..k] is a longest stretch of name without whitespace.
IsWordAt(name, i, k) ==
    /\ i <= k
    /\ \A n \in i..k : name[n] \notin WhitespaceChars
    /\ i = 1 \/ name[i - 1] \in WhitespaceChars
    /\ k = Len(name) \/ name[k + 1] \in WhitespaceChars

\* The words of a name.
WordsOf(name) ==
    {SubSeq(name, p[1], p[2]) :
        p \in {p \in (DOMAIN name) \X (DOMAIN name) : IsWordAt(name, p[1], p[2])}}

\* The entries of MAJOR_INSURANCE_COMPANIES whose key, lower-cased name or
\* some word of the lower-cased name is in the lower-cased query.
MatchingCompanies(text) ==
    {i \in DOMAIN MAJOR_INSURANCE_COMPANIES :
        LET entry == MAJOR_INSURANCE_COMPANIES[i]
        IN  \/ Contains(Lower(text), entry.key)
            \/ Contains(Lower(text), Lower(entry.name))
            \/ \E word \in WordsOf(Lower(entry.name)) : Contains(Lower(text), word)}

\* C15: extract_insurance_info_from_query sets company to the key, and
\* company_data to the entry, of the first entry of
\* MAJOR_INSURANCE_COMPANIES whose key, lower-cased name or some word of
\* the name is in the lower-cased query, and both to None if there is none.
C15_FirstCompanyInRegistryOrder ==
    chatAgent = "insurance" /\ chatPc \notin {"idle", "received"} =>
        LET matching == MatchingCompanies(UserMessage(content_list))
        IN  IF matching = {}
            THEN query_info.company = None /\ query_info.company_data = None
            ELSE LET first == CHOOSE i \in matching : \A j \in matching : i <= j
                 IN  /\ query_info.company = Some(MAJOR_INSURANCE_COMPANIES[first].key)
                     /\ query_info.company_data = Some(MAJOR_INSURANCE_COMPANIES[first])

\* "Aflac life" holds the key of the last entry and a word of the name of
\* an earlier one (New York Life): the earlier entry is taken.
C15_Witness ==
    /\ chatAgent = "insurance"
    /\ chatPc \notin {"idle", "received"}
    /\ content_list = << <<"A", "f", "l", "a", "c", " ", "l", "i", "f", "e">> >>
    /\ query_info.company = Some(<<"n", "e", "w", "y", "o", "r", "k", "l", "i", "f", "e">>)
    /\ query_info.company_data # None

\* A query without a company: both entries are None.
C15_NoCompanyReached ==
    /\ chatAgent = "insurance"
    /\ chatPc \notin {"idle", "received"}
    /\ content_list = << <<"x", "h", "e", "a", "l", "t", "h">> >>
    /\ query_info.company = None
    /\ query_info.company_data = None
    /\ query_info.insurance_type = Some("health")

(***************************************************************************)
(* Claims about the LLM retry loop and the analysis of get_token_outlook.  *)
(***************************************************************************)
\* C16: the retry loop of get_token_outlook makes at most max_retries = 3
\* requests to the LLM endpoint, whatever the outcomes of the requests are.
C16_AtMostMaxRetriesRequests ==
    chatAgent = "token" => calls.llm <= max_retries

\* Every request so far was answered with status 200 and an empty text:
\* retry_count is still 0 after more than max_retries requests, and the
\* loop goes on.
C16_EmptyRepliesReached ==
    /\ chatAgent = "token"
    /\ chatPc = "llm"
    /\ Len(llm_outcomes) > max_retries
    /\ \A i \in DOMAIN llm_outcomes : llm_outcomes[i] = "empty"
    /\ retry_count = 0
    /\ LlmLoopContinues([retry_count |-> retry_count, analysis |-> analysis])

\* A request that gave no text: a status other than 200, a timeout, or any
\* other exception.
IsFailure(outcome) == outcome \in {"status", "timeout", "error"}

Failures(outcomes) == SelectSeq(outcomes, IsFailure)

\* The sleeps a history of outcomes asks for: after the k-th failure, 3k
\* seconds for a timeout and 2k otherwise, and none after the failure that
\* ends the loop.
ExpectedWaits(outcomes) ==
    LET failed == Failures(outcomes)
        slept  == IF Len(failed) < max_retries THEN Len(failed) ELSE max_retries - 1
    IN  [k \in 1..slept |-> (IF failed[k] = "timeout" THEN 3 ELSE 2) * k]

\* get_token_outlook has chosen its analysis and rendered the response.
OutlookRendered == chatAgent = "token" /\ response.kind = "token outlook"

\* C17: the analysis get_token_outlook chooses is the LLM's text if some
\* request gave a text, and the result of fallback_analysis otherwise (no
\* key, every attempt failed, or preparing the call raised); no request is
\* made after the one that gave a text, nor after the failure that makes
\* retry_count reach max_retries; and the loop sleeps 2 x failures after a
\* bad status or a generic error and 3 x failures after a timeout, only
\* when another attempt follows.
C17_LlmTextOrFallback ==
    chatAgent = "token" =>
        /\ \A i \in 1..(Len(llm_outcomes) - 1) :
              /\ llm_outcomes[i] # "text"
              /\ Len(Failures(SubSeq(llm_outcomes, 1, i))) < max_retries
        /\ waits = ExpectedWaits(llm_outcomes)
        /\ Len(waits) < max_retries
        /\ ~llmKey => llm_outcomes = <<>>
        /\ OutlookRendered =>
              analysis = IF "text" \in Range(llm_outcomes)
                         THEN Some("llm analysis")
                         ELSE Some(fallback_analysis(price_data, sentiment_data))

\* A timeout, a bad status, then a text: sleeps of 3 and 4 seconds, and the
\* LLM's text is the analysis.
C17_Witness ==
    /\ OutlookRendered
    /\ chatPc = "done"
    /\ llm_outcomes = <<"timeout", "status", "text">>
    /\ waits = <<3, 4>>
    /\ calls.llm = 3
    /\ analysis = Some("llm analysis")

\* Three failures: two sleeps, none after the last, and the fallback.
C17_AllFailedReached ==
    /\ OutlookRendered
    /\ chatPc = "done"
    /\ llm_outcomes = <<"status", "timeout", "error">>
    /\ waits = <<2, 6>>
    /\ analysis = Some(fallback_analysis(price_data, sentiment_data))

\* No key: the fallback without a request.
C17_NoKeyReached ==
    /\ OutlookRendered
    /\ ~llmKey
    /\ calls.llm = 0
    /\ analysis = Some(fallback_analysis(price_data, sentiment_data))

\* Preparing the call raised: the fallback without a request.
C17_PrepareRaisedReached ==
    /\ OutlookRendered
    /\ llmKey
    /\ calls.llm = 0
    /\ analysis = Some(fallback_analysis(price_data, sentiment_data))

\* An empty text between failures does not reset the count of failures.
C17_EmptyBetweenFailuresReached ==
    /\ OutlookRendered
    /\ llm_outcomes = <<"error", "empty", "timeout", "status">>
    /\ waits = <<2, 6>>
    /\ analysis = Some(fallback_analysis(price_data, sentiment_data))

\* C18: the text get_token_outlook returns on success is a function of
\* price_data and sentiment_data alone: it renders these two, and nothing of
\* the analysis, whether that is the LLM's text or the fallback.
C18_ResponseFromPriceAndSentimentAlone ==
    OutlookRendered =>
        /\ response.data = price_data
        /\ response.sentiment = sentiment_data
        /\ response.analysis = None
        /\ \A sent \in Range(chatSent) : sent.text = response

\* The data both runs of the claim share.
C18_SameData ==
    /\ price_data = Data(3)
    /\ sentiment_data = Aggregate(<<Item(Text(<<"u", "p">>, FALSE, 15), "CoinGecko")>>)
    /\ response = ResponseText("token outlook", price_data, sentiment_data, None)

\* A run whose analysis is the LLM's text.
C18_Witness ==
    /\ OutlookRendered
    /\ chatPc = "done"
    /\ C18_SameData
    /\ analysis = Some("llm analysis")

\* A run with the same data whose analysis is the fallback after three
\* failed requests: the response is the same.
C18_FallbackReached ==
    /\ OutlookRendered
    /\ chatPc = "done"
    /\ C18_SameData
    /\ calls.llm = max_retries
    /\ analysis = Some(fallback_analysis(price_data, sentiment_data))

\* The scores, in hundredths, the categories are tried over.
CategoryScores == (-20)..20

\* The analysis is the result of fallback_analysis.
FallbackChosen ==
    /\ OutlookRendered
    /\ analysis # Some("llm analysis")

\* C20: for a result of analyze_sentiment, fallback_analysis takes none of
\* its four bullish/bearish branches: each of the five categories gives the
\* "moment of indecision" outlook, whatever the sign of the 24h change.
C20_FallbackOutlookIsIndecision ==
    /\ \A score \in CategoryScores, change \in {-3, 0, 3} :
          LET avg == Fraction(score, 1)
          IN  fallback_analysis(Data(change),
                                SentimentResult(avg, Categorize(avg), 1, <<>>,
                                                Analysis("absent", <<>>)))
                  = "moment of indecision"
    /\ FallbackChosen => analysis = Some("moment of indecision")

\* A very positive sentiment and a rising price: the outlook is indecision.
C20_Witness ==
    /\ FallbackChosen
    /\ chatPc = "done"
    /\ sentiment_data.sentiment_category = "very positive"
    /\ price_data.change > 0
    /\ analysis = Some("moment of indecision")

\* A very negative sentiment and a falling price.
C20_NegativeFallingReached ==
    /\ FallbackChosen
    /\ sentiment_data.sentiment_category = "very negative"
    /\ price_data.change < 0
    /\ analysis = Some("moment of indecision")

(***************************************************************************)
(* Claims about the collection of analyze_sentiment.                       *)
(***************************************************************************)
IsNewsSource(url) == url \in Range(NEWS_SOURCES)

IsMarketSource(url) == url \in Range(MARKET_DATA_SOURCES)

NewsRequested == SelectSeq(requested, IsNewsSource)

MarketRequested == SelectSeq(requested, IsMarketSource)

\* The texts the outcomes added.
RECURSIVE ItemsOf(_)
ItemsOf(outcomes) ==
    IF outcomes = <<>> THEN 0 ELSE Head(outcomes).items + ItemsOf(Tail(outcomes))

\* The sources that yielded relevant items: some text was taken from them.
Yielded(outcomes) ==
    Cardinality({i \in DOMAIN outcomes : outcomes[i].items > 0})

\* The sources processed to the end with a relevant item.
Successful(outcomes) ==
    Cardinality({i \in DOMAIN outcomes :
                    outcomes[i].kind = "ok" /\ outcomes[i].items > 0})

\* The rules of the collection, for a way of counting the sources that are
\* enough: the news sources are requested once each in list order, before
\* any market-data source; the loop ends only after the last source or when
\* enough sources and 10 texts are there, and requests nothing after that;
\* the market-data sources are requested, all three in order, iff the news
\* sources gave fewer than 5 texts.
CollectionRules(Count(_)) ==
    LET enough(n) == /\ Count(SubSeq(news_outcomes, 1, n)) >= 2
                     /\ ItemsOf(SubSeq(news_outcomes, 1, n)) >= 10
    IN  /\ Len(news_outcomes) = Len(NewsRequested)
        /\ NewsRequested = SubSeq(NEWS_SOURCES, 1, Len(NewsRequested))
        /\ requested = NewsRequested \o MarketRequested
        /\ MarketRequested = SubSeq(MARKET_DATA_SOURCES, 1, Len(MarketRequested))
        /\ \A n \in 0..(Len(news_outcomes) - 1) : ~enough(n)
        /\ newsPc \in {"market", "analyze"} =>
              \/ Len(NewsRequested) = Len(NEWS_SOURCES)
              \/ enough(Len(news_outcomes))
        /\ MarketRequested # <<>> =>
              newsPc \in {"market", "analyze"} /\ ItemsOf(news_outcomes) < 5
        /\ newsPc = "analyze" =>
              (ItemsOf(news_outcomes) < 5 <=> MarketRequested = MARKET_DATA_SOURCES)

\* C19: in one run of analyze_sentiment each news source is requested at
\* most once and in list order; a failed source neither aborts the run nor
\* keeps the later sources from being requested; no news source is
\* requested once 2 sources have yielded relevant items and 10 texts are
\* collected; the market-data sources are queried iff the news sources gave
\* fewer than 5 texts.
C19_NewsSourcesInOrderUntilEnough == CollectionRules(Yielded)

\* C19 with the sources counted as the code counts them: a source counts
\* once it was processed to the end with at least one relevant item.
C19_NewsSourcesUntilEnoughSuccessful == CollectionRules(Successful)

\* Five texts, a timeout, five texts: the third source is requested after
\* the failure, and the fourth is not; no market-data source is queried.
C19_Witness ==
    /\ newsPc = "analyze"
    /\ news_outcomes = <<NewsOutcome("ok", 5), NewsOutcome("timeout", 0),
                         NewsOutcome("ok", 5)>>
    /\ requested = SubSeq(NEWS_SOURCES, 1, 3)
    /\ successful_sources = 2
    /\ texts_count = 10

\* Every news source fails: all five were requested, then the three
\* market-data sources.
C19_AllFailedReached ==
    /\ newsPc = "analyze"
    /\ \A i \in DOMAIN news_outcomes : news_outcomes[i].kind \in NewsFailures
    /\ requested = NEWS_SOURCES \o MARKET_DATA_SOURCES

\* Ten texts of one source and one text of a source that raised afterwards:
\* two sources have yielded items, and a third source is requested.
C19_RaisedSourceNotCountedReached ==
    /\ Len(news_outcomes) = 3
    /\ news_outcomes[1] = NewsOutcome("ok", MaxNewsItems)
    /\ news_outcomes[2] = NewsOutcome("raised", 1)
    /\ requested = SubSeq(NEWS_SOURCES, 1, 3)
    /\ successful_sources = 1

\* Five texts from the news sources: no market-data source is queried.
C19_FiveTextsNoMarketReached ==
    /\ newsPc = "analyze"
    /\ ItemsOf(news_outcomes) = 5
    /\ requested = NEWS_SOURCES

(***************************************************************************)
(* Claims about the Solana wallet agent.                                   *)
(***************************************************************************)
IsTextItem(item) == item.type = "text"

\* The handler that ran last, by name.
Ran(handler) == solHandler = handler

\* C21: for every ChatMessage, handle_message sends one ChatAcknowledgement
\* with the message's msg_id to the sender, before it forwards anything;
\* then it forwards one StructuredOutputPrompt to the AI agent per
\* TextContent item, in item order, and none for any other item.  (A
\* ctx.send that raises ends the handler: what was sent until then is the
\* acknowledgement and the prompts of the first text items.)
C21_AckThenOnePromptPerText ==
    Ran("handle_message") =>
        LET text_items == SelectSeq(solMsg.content, IsTextItem)
        IN  /\ solSent # <<>>
            /\ solSent[1].to = solSender
            /\ solSent[1].kind = "ChatAcknowledgement"
            /\ solSent[1].ref = solMsg.msg_id
            /\ Len(solSent) <= 1 + Len(text_items)
            /\ solReturned => Len(solSent) = 1 + Len(text_items)
            /\ \A i \in 2..Len(solSent) :
                  /\ solSent[i].to = AI_AGENT_ADDRESS
                  /\ solSent[i].kind = "StructuredOutputPrompt"
                  /\ solSent[i].ref = text_items[i - 1].text

\* Two text items: the acknowledgement, then the two prompts in item order.
C21_Witness ==
    /\ Ran("handle_message")
    /\ solReturned
    /\ solSender = "bob"
    /\ solMsg = ChatMessage("m2", <<ContentItem("text", "tokens of B"),
                                    ContentItem("text", "balance of A")>>)
    /\ solSent = <<SolanaSend("bob", "ChatAcknowledgement", "m2", <<>>, TRUE),
                   SolanaSend(AI_AGENT_ADDRESS, "StructuredOutputPrompt",
                              "tokens of B", <<>>, TRUE),
                   SolanaSend(AI_AGENT_ADDRESS, "StructuredOutputPrompt",
                              "balance of A", <<>>, TRUE)>>

\* A start of a session and another content type: the acknowledgement only.
C21_NoTextReached ==
    /\ Ran("handle_message")
    /\ solReturned
    /\ solMsg.content = <<ContentItem("start-session", ""),
                          ContentItem("end-session", "")>>
    /\ solSent = <<SolanaSend(solSender, "ChatAcknowledgement", solMsg.msg_id,
                              <<>>, TRUE)>>

\* Every ctx.send of the handler returned.
AllSendsReturned == \A i \in DOMAIN solSent : solSent[i].ok

\* C22: handle_structured_output_response sends nothing when no sender is
\* stored for the session; otherwise, when no send fails, it sends exactly
\* one chat reply, to the stored sender, on every path, and every reply is
\* a text content followed by an end-session content.
C22_OneClosingReplyToStoredSender ==
    Ran("handle_structured_output_response") =>
        /\ solStored = None => solSent = <<>>
        /\ solStored # None /\ AllSendsReturned =>
              /\ Len(solSent) = 1
              /\ solReturned
        /\ \A i \in DOMAIN solSent :
              /\ solStored # None
              /\ solSent[i].to = solStored[1]
              /\ solSent[i].kind = "ChatMessage"
              /\ Len(solSent[i].content) = 2
              /\ solSent[i].content[1].type = "text"
              /\ solSent[i].content[2].type = "end-session"

\* The token balances of an address: one reply that ends the session.
C22_Witness ==
    /\ Ran("handle_structured_output_response")
    /\ solStored = Some("alice")
    /\ solOutput = Output("parsed", "A", <<"t", "o", "k", "e", "n", "s">>)
    /\ solSent = <<SolanaSend("alice", "ChatMessage", "",
                              <<ContentItem("text", "Token Balances"),
                                ContentItem("end-session", "")>>, TRUE)>>

\* No sender is stored for the session: nothing is sent.
C22_NoSenderReached ==
    /\ Ran("handle_structured_output_response")
    /\ solStored = None
    /\ solOutput.kind = "parsed"
    /\ solSent = <<>>

\* The reply of a path: the text, with the sends all returning.
C22_ReplyReached(kind, address, text) ==
    /\ Ran("handle_structured_output_response")
    /\ solStored # None
    /\ solOutput.kind = kind
    /\ solOutput.address = address
    /\ solSent = <<ChatReply(solStored[1], text, TRUE)>>

C22_UnknownReached == C22_ReplyReached("unknown", "", UNKNOWN_TEXT)

C22_NoAddressReached == C22_ReplyReached("parsed", "", NO_ADDRESS_TEXT)

C22_ExceptionReached == C22_ReplyReached("invalid", "", TRY_LATER_TEXT)

C22_FetchErrorReached ==
    C22_ReplyReached("parsed", "A", "Error fetching account info")

\* The send of the response raises: the except clause sends a second reply.
C22_SendFailsReached ==
    /\ Ran("handle_structured_output_response")
    /\ solStored # None
    /\ Len(solSent) = 2
    /\ ~solSent[1].ok
    /\ solSent[2] = ChatReply(solStored[1], TRY_LATER_TEXT, TRUE)

\* The handler got as far as the dispatch on the action.
Dispatched ==
    /\ Ran("handle_structured_output_response")
    /\ solStored # None
    /\ solOutput.kind = "parsed"
    /\ solOutput.address # ""

\* C23: the action is dispatched on the lower-cased action string with
\* fixed priority: transactions for 'transaction', 'history' or 'recent';
\* otherwise token balances for 'token'; otherwise account info for 'info'
\* or 'account'; otherwise the balance.  Exactly one service function is
\* called per response that reaches the dispatch, and none otherwise.
C23_DispatchPriority ==
    Ran("handle_structured_output_response") =>
        IF Dispatched
        THEN LET lowered == Lower(solOutput.action)
                 group1  == \E word \in {<<"t", "r", "a", "n", "s", "a", "c", "t", "i", "o", "n">>, <<"h", "i", "s", "t", "o", "r", "y">>, <<"r", "e", "c", "e", "n", "t">>} :
                               Contains(lowered, word)
                 group2  == Contains(lowered, <<"t", "o", "k", "e", "n">>)
                 group3  == \E word \in {<<"i", "n", "f", "o">>, <<"a", "c", "c", "o", "u", "n", "t">>} : Contains(lowered, word)
             IN  /\ Len(solCalls) = 1
                 /\ group1 => solCalls[1] = "get_recent_transactions"
                 /\ ~group1 /\ group2 => solCalls[1] = "get_token_balances"
                 /\ ~group1 /\ ~group2 /\ group3 => solCalls[1] = "get_account_info"
                 /\ ~group1 /\ ~group2 /\ ~group3 =>
                       solCalls[1] = "get_balance_from_address"
        ELSE solCalls = <<>>

\* 'Token Transactions' matches two groups: the transactions are fetched.
C23_Witness ==
    /\ Dispatched
    /\ solOutput.action = <<"T", "o", "k", "e", "n", " ", "T", "r", "a", "n", "s", "a", "c", "t", "i", "o", "n", "s">>
    /\ solCalls = <<"get_recent_transactions">>
    /\ solSent = <<ChatReply(solStored[1], "Recent Transactions", TRUE)>>

\* An action of no group, here the empty one: the balance.
C23_DefaultReached ==
    /\ Dispatched
    /\ solOutput.action = <<>>
    /\ solCalls = <<"get_balance_from_address">>

C23_AccountReached ==
    /\ Dispatched
    /\ solOutput.action = <<"A", "c", "c", "o", "u", "n", "t">>
    /\ solCalls = <<"get_account_info">>

\* C24: with several sessions interleaved, the reply to a structured-output
\* response of a session goes to the sender of the ChatMessage handled last
\* in that session, never to a sender that took part in another session
\* only.
C24_ReplyToSenderOfSameSession ==
    Ran("handle_structured_output_response") =>
        /\ last_chat_sender[solSession] = None => solSent = <<>>
        /\ \A i \in DOMAIN solSent :
              /\ last_chat_sender[solSession] = Some(solSent[i].to)
              /\ solSent[i].to \in participants[solSession]

\* alice in s1, then bob in s2, then the response of s1: it goes to alice.
C24_Witness ==
    /\ Ran("handle_structured_output_response")
    /\ solSession = "s1"
    /\ participants = [session \in Sessions |->
                          IF session = "s1" THEN {"alice"} ELSE {"bob"}]
    /\ solSent # <<>>
    /\ solSent[1].to = "alice"

\* Two senders in one session: the reply goes to the later one.
C24_LaterSenderReached ==
    /\ Ran("handle_structured_output_response")
    /\ solSession = "s2"
    /\ participants["s2"] = {"alice", "bob"}
    /\ last_chat_sender["s2"] = Some("bob")
    /\ solSent # <<>>
    /\ solSent[1].to = "bob"

\* The error texts get_balance_from_address returns.
BalanceErrorTexts ==
    {"Request error", "JSON decode error", "Error: message",
     "No balance information found", "Unexpected error"}

\* C25: get_balance_from_address never raises, every failure is returned as
\* an error text; handle_request then replies with a SolanaResponse whose
\* balance is that text, and its ErrorMessage is sent only after a send of
\* the SolanaResponse that raised.
C25_BalanceFailureIsResponseText ==
    /\ \A rpc \in RpcReplies :
          /\ ~get_balance_from_address(rpc).raised
          /\ rpc # "lamports" =>
                get_balance_from_address(rpc).text \in BalanceErrorTexts
    /\ Ran("handle_request") =>
          /\ solSent # <<>>
          /\ solSent[1].to = solSender
          /\ solSent[1].kind = "SolanaResponse"
          /\ solRpc # "lamports" => solSent[1].ref \in BalanceErrorTexts
          /\ \A i \in DOMAIN solSent :
                solSent[i].kind = "ErrorMessage" => i = 2 /\ ~solSent[1].ok

\* An error object without a message: the KeyError is returned as a text
\* and sent as the balance.
C25_Witness ==
    /\ Ran("handle_request")
    /\ solRpc = "error without message"
    /\ solSent = <<SolanaSend(solSender, "SolanaResponse", "Unexpected error",
                              <<>>, TRUE)>>

C25_RequestErrorReached ==
    /\ Ran("handle_request")
    /\ solRpc = "bad status"
    /\ solSent = <<SolanaSend(solSender, "SolanaResponse", "Request error",
                              <<>>, TRUE)>>

\* The ErrorMessage after a send that raised.
C25_ErrorMessageReached ==
    /\ Ran("handle_request")
    /\ Len(solSent) = 2
    /\ solSent[2].kind = "ErrorMessage"

====
